---- MODULE Spec2Model ----
(***************************************************************************)
(* gvproxy: the process (cmd/gvproxy/main.go: main, run and the tasks of   *)
(* the error group), the SSH tunnel forwarder                              *)
(* (pkg/virtualnetwork/ssh_forwarder.go), the bastion (pkg/sshclient) and  *)
(* the two byte pumps of one forwarded connection.                         *)
(*                                                                         *)
(* Grain of atomicity: one action per blocking call or per call into       *)
(* another package. A non-blocking `select { case <-ctx.Done(): ...        *)
(* default: }` is one step with the call that directly follows it.         *)
(* Goroutines interleave between actions. os.Exit ends every goroutine.    *)
(***************************************************************************)
EXTENDS Integers, Sequences, FiniteSets, TLC

VARIABLES
    \* ---- main.go: flags and process ----
    flags,          \* the parsed command line (main.go:26-53)
    mainPc,         \* position of main()
    exitCode,       \* the package variable exitCode (main.go:38)
    deferredExit,   \* argument of the deferred os.Exit, fixed when `defer` runs
    exitStatus,     \* Running, or the status the process ended with
    forwards,       \* Configuration.Forwards, once built (main.go:170-172)
    \* ---- errgroup and root context ----
    ctxDone,        \* the group's context is cancelled
    groupErr,       \* first non-nil error returned by a task ("nil" if none)
    sigPending,     \* a signal sits in sigChan
    sigCaught,      \* a signal was ever delivered (history)
    \* ---- tasks of the group (main.go:184-351) ----
    runPc, sigPc,
    httpLn, httpCloserPc, httpServePc,
    vpnLn, vpnPc, vpnPending, vpnArrived, vpnHandlers,
    qemuLn, qemuSockFile, qemuCloserPc, qemuPc, qemuPending, qemuAccepts,
    \* ---- SSH forwarder task (main.go:325-350, ssh_forwarder.go) ----
    fwdPc,          \* position of the forwarder task
    sockFile,       \* the path S exists on disk
    fwdLn,          \* SSHForward.listener: "none", "open", "closed"
    fwdPending,     \* local connections waiting in the listener's backlog
    fwdArrived,     \* local connections that ever arrived
    guestConn,      \* the TCP connection dialed to sshd: "none", "open", "closed", "ssh"
    client,         \* bastion.Client: "nil", "open", "dead" (transport lost), "closed"
    sshdUp,         \* the guest's sshd accepts connections and handshakes
    con,            \* the accepted local connection: "none", "open", "closed", "piped"
    acceptRet,      \* what the last AcceptAndTunnel returned: "none", "nil", "err"
    retries, bastionRetries,     \* the loop counters of connectForward
    tunnels,        \* connections handed to the two pumps so far
    closerPc,       \* the goroutine of main.go:331-335
    \* ---- initialConnection (ssh_forwarder.go:147-173) ----
    icI, icBackoff, icConn, icErr,
    \* ---- history of the current connectForward / initialConnection call ----
    cfDials,        \* channel-open attempts of the current connectForward
    cfProbes,       \* liveness probes of the current connectForward
    cfReconn,       \* Reconnect attempts since the last failed probe
    cfLast,         \* the last thing connectForward did
    cfWait,         \* milliseconds of its last completed sleep (0: none, or cut short)
    icDials,        \* dial attempts of initialConnection
    icLastWait,     \* milliseconds initialConnection asked to sleep last
    tunnelsAfterCancel,  \* tunnels started while the context was already cancelled
    dropped,        \* accepted connections closed because connectForward failed
    \* ---- the latest forwarded connection and its two pumps (ssh_forwarder.go:196-208).
    \* A side is "local" (the accepted Unix connection and the client behind it) or
    \* "ssh" (the SSH channel and the guest's process behind it); a pump is named
    \* by the side it reads from ----
    sent,           \* per side: how many bytes the peer has written
    wire,           \* per side: bytes written by the peer, not yet read by the pump
    peerEof,        \* per side: the peer has shut down its write half
    got,            \* per side: bytes delivered to the peer
    gotEof,         \* per side: CloseWrite was called on this side's endpoint
    epClosed,       \* per side: Close was called on this side's endpoint
    pumpPc,         \* per pump: position ("none", "read", "write", "closewrite", "close", "done")
    pumpBuf,        \* per pump: bytes read and not yet written
    owed,           \* per side: bytes the peer was due when its pump read end-of-stream
    \* ---- one call of sshclient.CreateBastion and the handshake that follows
    \* (ssh_forwarder.go:280-404) ----
    hkSecure,       \* the URL carries secure=true
    hkPort,         \* the port of the URL
    knownHosts,     \* ~/.ssh/known_hosts: whether it can be opened, and its lines
    serverKey,      \* the host key the server presents
    hkPc,           \* position: "idle", "start", "scan", "config", "handshake", "done"
    hkLine,         \* HostKey: lines scanned so far
    hkSalt,         \* HostKey: the salt HashHostname drew
    hkKey,          \* what HostKey returned ("nil" for no key)
    hkCallback,     \* Config.HostKeyCallback: "none", "insecure", "fixed"
    hkResult,       \* the handshake's verdict on the host key: "none", "accepted", "rejected"
    \* ---- the UDP forwarder's handler for one flow, and the NAT table
    \* (part_000:16-41) ----
    nat,            \* the NAT table: a function from some addresses to addresses
    natLock,        \* holder of natLock: "free", "handler", "writer"
    natChanges,     \* how often the table was changed
    udpFlows,       \* how many flows were handed to the handler
    udpPc,          \* position of the handler
    udpDst, udpPort,\* r.ID().LocalAddress and r.ID().LocalPort of the flow
    udpLocal,       \* the handler's variable localAddress
    udpEp,          \* CreateEndpoint gave a guest-side endpoint
    udpProxy,       \* the proxy of the flow was started
    udpDialed,      \* <<address, port>> the proxy dialed, or <<>>
    natAtLookup     \* the NAT table as it was at the lookup of this flow

mainVars == <<flags, mainPc, exitCode, deferredExit, exitStatus, forwards>>
groupVars == <<ctxDone, groupErr, sigPending, sigCaught>>
taskVars == <<runPc, sigPc, httpLn, httpCloserPc, httpServePc>>
vpnVars == <<vpnLn, vpnPc, vpnPending, vpnArrived, vpnHandlers>>
qemuVars == <<qemuLn, qemuSockFile, qemuCloserPc, qemuPc, qemuPending, qemuAccepts>>
fwdVars == <<fwdPc, sockFile, fwdLn, fwdPending, fwdArrived, guestConn, client, sshdUp,
             con, acceptRet, retries, bastionRetries, tunnels, closerPc>>
icVars == <<icI, icBackoff, icConn, icErr>>
histVars == <<cfDials, cfProbes, cfReconn, cfLast, cfWait, icDials, icLastWait,
              tunnelsAfterCancel, dropped>>
pumpVars == <<sent, wire, peerEof, got, gotEof, epClosed, pumpPc, pumpBuf, owed>>
hkVars == <<hkSecure, hkPort, knownHosts, serverKey, hkPc, hkLine, hkSalt, hkKey,
           hkCallback, hkResult>>
udpVars == <<nat, natLock, natChanges, udpFlows, udpPc, udpDst, udpPort, udpLocal,
            udpEp, udpProxy, udpDialed, natAtLookup>>
\* everything of the gvproxy process itself
procVars == <<mainVars, groupVars, taskVars, vpnVars, qemuVars, fwdVars, icVars,
              histVars, pumpVars>>
vars == <<procVars, hkVars, udpVars>>

----------------------------------------------------------------------------
\* Bounds of the model.

\* connections the environment offers to the VPNKit listener
MaxVpnConns == 2
\* connections the environment offers to the Qemu listener
MaxQemuConns == 2
\* local connections the environment offers on the forwarded socket S
MaxLocalConns == 2
\* bytes each peer of a forwarded connection writes
MaxBytes == 2

----------------------------------------------------------------------------
\* Command line (main.go:41-53) and its validation (main.go:66-112).

\* exitStatus while the process has not exited
Running == 0 - 1

\* --ssh-port values tried: both sides of each limit
SshPorts == {1023, 1024, 2222, 65535, 65536}

\* A flag is "" when not given. --listen-qemu: "ok", "bad" (url.Parse fails) or
\* "exists" (a unix path that os.Stat finds). --forward-identity: "ok" or
\* "missing" (os.Stat fails).
FlagSpace ==
    [vpnkitSocket : {"", "ok"}, qemuSocket : {"", "ok", "bad", "exists"},
     sshPort : SshPorts,
     forwardSocket : {"", "ok"}, forwardDest : {"", "ok"},
     forwardUser : {"", "ok"}, forwardIdentify : {"", "ok", "missing"}]

\* main.go:92-108
ForwardCount(f) ==
    (IF f.forwardDest # "" THEN 1 ELSE 0) + (IF f.forwardIdentify # "" THEN 1 ELSE 0)
    + (IF f.forwardUser # "" THEN 1 ELSE 0) + (IF f.forwardSocket # "" THEN 1 ELSE 0)

\* main.go:84 with the lower limit itself rejected
SshPortInvalidInclusive(p) == p <= 1024 \/ p > 65535

\* main.go:84
SshPortInvalid(p) == p < 1024 \/ p > 65535

\* main.go:110 rejecting one or two of the flags only
ForwardCountInvalidBelowThree(n) == n > 0 /\ n < 3

\* main.go:110
ForwardCountInvalid(n) == n > 0 /\ n < 4

\* The first exitWithError main reaches, or "" (main.go:70-112), in source order.
ValidationError(f) ==
    CASE f.qemuSocket = "bad" -> "invalid value for listen-qemu"
      [] f.qemuSocket = "exists" -> "already exists"
      [] f.vpnkitSocket # "" /\ f.qemuSocket # "" -> "qemu and vpnkit"
      [] SshPortInvalid(f.sshPort) -> "ssh-port"
      [] f.forwardIdentify = "missing" -> "identity"
      [] ForwardCountInvalid(ForwardCount(f)) -> "forward flags"
      [] OTHER -> ""

\* main.go:170-172: Forwards maps ":<ssh-port>" (a colon and the port in
\* decimal) to the guest's sshd
BuildForwards(p) == {<<<<":", p>>, "192.168.127.2:22">>}

----------------------------------------------------------------------------
\* errgroup (golang.org/x/sync/errgroup as used in main.go:58, 184-203).

\* A task of the group returns err ("nil" for no error): the first non-nil error
\* is kept and cancels the group's context.
TaskReturn(err) ==
    /\ groupErr' = IF err # "nil" /\ groupErr = "nil" THEN err ELSE groupErr
    /\ ctxDone' = (ctxDone \/ err # "nil")

\* Every goroutine started with Go has returned (the group's WaitGroup is zero).
AllTasksDone ==
    /\ runPc = "done" /\ sigPc = "done"
    /\ httpCloserPc \in {"none", "done"} /\ httpServePc \in {"none", "done"}
    /\ vpnPc \in {"none", "done"} /\ vpnHandlers = 0
    /\ qemuCloserPc \in {"none", "done"} /\ qemuPc \in {"none", "done"}
    /\ fwdPc \in {"none", "done"}

----------------------------------------------------------------------------
\* main (main.go:41-204).

\* main.go:54-58: the root context, and `defer os.Exit(exitCode)`. Go evaluates
\* the argument of a deferred call when the defer statement runs.
MainDefer ==
    /\ exitStatus = Running /\ mainPc = "init"
    /\ deferredExit' = exitCode
    /\ mainPc' = "validate"
    /\ UNCHANGED <<flags, exitCode, exitStatus, forwards>>
    /\ UNCHANGED <<groupVars, taskVars, vpnVars, qemuVars, fwdVars, icVars, histVars, pumpVars>>
    /\ UNCHANGED <<hkVars, udpVars>>

\* main.go:367-370: exitWithError logs and calls os.Exit(1)
ExitWithErrorStatus == 1

\* main.go:66-112 failing: exitWithError
MainValidateFail ==
    /\ exitStatus = Running /\ mainPc = "validate"
    /\ ValidationError(flags) # ""
    /\ exitStatus' = ExitWithErrorStatus
    /\ mainPc' = "exited"
    /\ UNCHANGED <<flags, exitCode, deferredExit, forwards>>
    /\ UNCHANGED <<groupVars, taskVars, vpnVars, qemuVars, fwdVars, icVars, histVars, pumpVars>>
    /\ UNCHANGED <<hkVars, udpVars>>

\* main.go:66-198 passing: the configuration is built and the two tasks of main
\* are started (run, and the signal waiter)
MainStart ==
    /\ exitStatus = Running /\ mainPc = "validate"
    /\ ValidationError(flags) = ""
    /\ forwards' = BuildForwards(flags.sshPort)
    /\ runPc' = "new" /\ sigPc' = "wait"
    /\ mainPc' = "wait"
    /\ UNCHANGED <<flags, exitCode, deferredExit, exitStatus>>
    /\ UNCHANGED <<httpLn, httpCloserPc, httpServePc>>
    /\ UNCHANGED <<groupVars, vpnVars, qemuVars, fwdVars, icVars, histVars, pumpVars>>
    /\ UNCHANGED <<hkVars, udpVars>>

\* main.go:200-203: groupErrs.Wait returns once every task has returned; it
\* cancels the context and hands back the first error
MainWait ==
    /\ exitStatus = Running /\ mainPc = "wait"
    /\ AllTasksDone
    /\ ctxDone' = TRUE
    /\ exitCode' = IF groupErr # "nil" THEN 1 ELSE exitCode
    /\ mainPc' = "return"
    /\ UNCHANGED <<flags, deferredExit, exitStatus, forwards>>
    /\ UNCHANGED <<groupErr, sigPending, sigCaught>>
    /\ UNCHANGED <<taskVars, vpnVars, qemuVars, fwdVars, icVars, histVars, pumpVars>>
    /\ UNCHANGED <<hkVars, udpVars>>

\* main.go:204 with the defer of main.go:56: main returns and the deferred
\* os.Exit runs with the argument it was given at the defer statement
MainReturn ==
    /\ exitStatus = Running /\ mainPc = "return"
    /\ exitStatus' = deferredExit
    /\ mainPc' = "exited"
    /\ UNCHANGED <<flags, exitCode, deferredExit, forwards>>
    /\ UNCHANGED <<groupVars, taskVars, vpnVars, qemuVars, fwdVars, icVars, histVars, pumpVars>>
    /\ UNCHANGED <<hkVars, udpVars>>

\* A signal (os.Interrupt, SIGTERM) is delivered to sigChan (main.go:60-61).
\* One signal is modelled: nothing reads sigChan after the first.
Signal ==
    /\ exitStatus = Running /\ mainPc \in {"validate", "wait"}
    /\ ~sigCaught
    /\ sigPending' = TRUE /\ sigCaught' = TRUE
    /\ UNCHANGED <<ctxDone, groupErr>>
    /\ UNCHANGED <<mainVars, taskVars, vpnVars, qemuVars, fwdVars, icVars, histVars, pumpVars>>
    /\ UNCHANGED <<hkVars, udpVars>>

\* main.go:189-198, case <-sigChan: cancel() and the error "signal caught"
SigWaiterSignal ==
    /\ exitStatus = Running /\ sigPc = "wait"
    /\ sigPending
    /\ sigPending' = FALSE
    /\ sigPc' = "done"
    /\ TaskReturn("signal caught")
    /\ UNCHANGED <<sigCaught, runPc, httpLn, httpCloserPc, httpServePc>>
    /\ UNCHANGED <<mainVars, vpnVars, qemuVars, fwdVars, icVars, histVars, pumpVars>>
    /\ UNCHANGED <<hkVars, udpVars>>

\* main.go:189-198, case <-ctx.Done()
SigWaiterCancelled ==
    /\ exitStatus = Running /\ sigPc = "wait"
    /\ ctxDone
    /\ sigPc' = "done"
    /\ UNCHANGED <<groupVars, runPc, httpLn, httpCloserPc, httpServePc>>
    /\ UNCHANGED <<mainVars, vpnVars, qemuVars, fwdVars, icVars, histVars, pumpVars>>
    /\ UNCHANGED <<hkVars, udpVars>>

----------------------------------------------------------------------------
\* run (main.go:224-354). No --listen flag is given, so endpoints holds the one
\* default URL (main.go:66-68); --debug is off.

\* main.go:225-228: virtualnetwork.New
RunNew ==
    /\ exitStatus = Running /\ runPc = "new"
    /\ \E ok \in BOOLEAN :
         IF ok THEN /\ runPc' = "listen"
                    /\ UNCHANGED <<ctxDone, groupErr>>
               ELSE /\ runPc' = "done"
                    /\ TaskReturn("virtualnetwork.New")
    /\ UNCHANGED <<sigPending, sigCaught, sigPc, httpLn, httpCloserPc, httpServePc>>
    /\ UNCHANGED <<mainVars, vpnVars, qemuVars, fwdVars, icVars, histVars, pumpVars>>
    /\ UNCHANGED <<hkVars, udpVars>>

\* main.go:231-251: transport.Listen on the endpoint, then the closer task and
\* the http.Serve task
RunListen ==
    /\ exitStatus = Running /\ runPc = "listen"
    /\ \E ok \in BOOLEAN :
         IF ok THEN /\ runPc' = "vpnkit"
                    /\ httpLn' = "open"
                    /\ httpCloserPc' = "wait" /\ httpServePc' = "serve"
                    /\ UNCHANGED <<ctxDone, groupErr>>
               ELSE /\ runPc' = "done"
                    /\ TaskReturn("cannot listen")
                    /\ UNCHANGED <<httpLn, httpCloserPc, httpServePc>>
    /\ UNCHANGED <<sigPending, sigCaught, sigPc>>
    /\ UNCHANGED <<mainVars, vpnVars, qemuVars, fwdVars, icVars, histVars, pumpVars>>
    /\ UNCHANGED <<hkVars, udpVars>>

\* main.go:267-292: the VPNKit listener and its accept loop
RunVpnkit ==
    /\ exitStatus = Running /\ runPc = "vpnkit"
    /\ IF flags.vpnkitSocket = ""
       THEN /\ runPc' = "qemu"
            /\ UNCHANGED <<ctxDone, groupErr, vpnLn, vpnPc>>
       ELSE \E ok \in BOOLEAN :
              IF ok THEN /\ runPc' = "qemu"
                         /\ vpnLn' = "open" /\ vpnPc' = "check"
                         /\ UNCHANGED <<ctxDone, groupErr>>
                    ELSE /\ runPc' = "done"
                         /\ TaskReturn("vpnkit listen")
                         /\ UNCHANGED <<vpnLn, vpnPc>>
    /\ UNCHANGED <<sigPending, sigCaught, sigPc, httpLn, httpCloserPc, httpServePc>>
    /\ UNCHANGED <<vpnPending, vpnArrived, vpnHandlers>>
    /\ UNCHANGED <<mainVars, qemuVars, fwdVars, icVars, histVars, pumpVars>>
    /\ UNCHANGED <<hkVars, udpVars>>

\* main.go:294-316: the Qemu listener, its closer task and its accept task
RunQemu ==
    /\ exitStatus = Running /\ runPc = "qemu"
    /\ IF flags.qemuSocket = ""
       THEN /\ runPc' = "forward"
            /\ UNCHANGED <<ctxDone, groupErr, qemuLn, qemuSockFile, qemuCloserPc, qemuPc>>
       ELSE \E ok \in BOOLEAN :
              IF ok THEN /\ runPc' = "forward"
                         /\ qemuLn' = "open" /\ qemuSockFile' = TRUE
                         /\ qemuCloserPc' = "wait" /\ qemuPc' = "accept"
                         /\ UNCHANGED <<ctxDone, groupErr>>
                    ELSE /\ runPc' = "done"
                         /\ TaskReturn("qemu listen")
                         /\ UNCHANGED <<qemuLn, qemuSockFile, qemuCloserPc, qemuPc>>
    /\ UNCHANGED <<sigPending, sigCaught, sigPc, httpLn, httpCloserPc, httpServePc>>
    /\ UNCHANGED <<qemuPending, qemuAccepts>>
    /\ UNCHANGED <<mainVars, vpnVars, fwdVars, icVars, histVars, pumpVars>>
    /\ UNCHANGED <<hkVars, udpVars>>

\* main.go:318-353: the forwarder task is started when --forward-sock is given;
\* run returns nil
RunForward ==
    /\ exitStatus = Running /\ runPc = "forward"
    /\ fwdPc' = IF flags.forwardSocket # "" THEN "create" ELSE fwdPc
    /\ runPc' = "done"
    /\ TaskReturn("nil")
    /\ UNCHANGED <<sigPending, sigCaught, sigPc, httpLn, httpCloserPc, httpServePc>>
    /\ UNCHANGED <<sockFile, fwdLn, fwdPending, fwdArrived, guestConn, client,
                   con, acceptRet, retries, bastionRetries, tunnels, closerPc, sshdUp>>
    /\ UNCHANGED <<mainVars, vpnVars, qemuVars, icVars, histVars, pumpVars>>
    /\ UNCHANGED <<hkVars, udpVars>>

----------------------------------------------------------------------------
\* The endpoint's tasks (main.go:237-250).

\* main.go:237-240: <-ctx.Done(); return ln.Close()
HttpCloser ==
    /\ exitStatus = Running /\ httpCloserPc = "wait"
    /\ ctxDone
    /\ httpLn' = "closed"
    /\ httpCloserPc' = "done"
    /\ UNCHANGED <<groupVars, runPc, sigPc, httpServePc>>
    /\ UNCHANGED <<mainVars, vpnVars, qemuVars, fwdVars, icVars, histVars, pumpVars>>
    /\ UNCHANGED <<hkVars, udpVars>>

\* main.go:241-250: http.Serve returns (always an error) once its listener is closed
HttpServeReturn ==
    /\ exitStatus = Running /\ httpServePc = "serve"
    /\ httpLn = "closed"
    /\ httpServePc' = "done"
    /\ TaskReturn("http.Serve")
    /\ UNCHANGED <<sigPending, sigCaught, runPc, sigPc, httpLn, httpCloserPc>>
    /\ UNCHANGED <<mainVars, vpnVars, qemuVars, fwdVars, icVars, histVars, pumpVars>>
    /\ UNCHANGED <<hkVars, udpVars>>

----------------------------------------------------------------------------
\* The VPNKit accept loop (main.go:272-291). Nothing closes vpnkitListener.

\* a VM-side client connects to the VPNKit socket
VpnConnArrives ==
    /\ exitStatus = Running /\ vpnLn = "open"
    /\ vpnArrived < MaxVpnConns
    /\ vpnArrived' = vpnArrived + 1 /\ vpnPending' = vpnPending + 1
    /\ UNCHANGED <<vpnLn, vpnPc, vpnHandlers>>
    /\ UNCHANGED <<mainVars, groupVars, taskVars, qemuVars, fwdVars, icVars, histVars, pumpVars>>
    /\ UNCHANGED <<hkVars, udpVars>>

\* main.go:275-281: the cancellation check, then the call of Accept
VpnCheck ==
    /\ exitStatus = Running /\ vpnPc = "check"
    /\ vpnPc' = IF ctxDone THEN "done" ELSE "accept"
    /\ UNCHANGED <<vpnLn, vpnPending, vpnArrived, vpnHandlers>>
    /\ UNCHANGED <<mainVars, groupVars, taskVars, qemuVars, fwdVars, icVars, histVars, pumpVars>>
    /\ UNCHANGED <<hkVars, udpVars>>

\* main.go:281-288: Accept returns a connection; its handler joins the group
VpnAccept ==
    /\ exitStatus = Running /\ vpnPc = "accept"
    /\ vpnPending > 0
    /\ vpnPending' = vpnPending - 1
    /\ vpnHandlers' = vpnHandlers + 1
    /\ vpnPc' = "check"
    /\ UNCHANGED <<vpnLn, vpnArrived>>
    /\ UNCHANGED <<mainVars, groupVars, taskVars, qemuVars, fwdVars, icVars, histVars, pumpVars>>
    /\ UNCHANGED <<hkVars, udpVars>>

\* main.go:282-285: Accept returns an error; the loop logs it and continues
VpnAcceptError ==
    /\ exitStatus = Running /\ vpnPc = "accept"
    /\ vpnPc' = "check"
    /\ UNCHANGED <<vpnLn, vpnPending, vpnArrived, vpnHandlers>>
    /\ UNCHANGED <<mainVars, groupVars, taskVars, qemuVars, fwdVars, icVars, histVars, pumpVars>>
    /\ UNCHANGED <<hkVars, udpVars>>

\* main.go:286-288: vn.AcceptVpnKit(conn) returns when its connection ends
VpnHandlerReturn ==
    /\ exitStatus = Running /\ vpnHandlers > 0
    /\ vpnHandlers' = vpnHandlers - 1
    /\ \E err \in {"nil", "vpnkit connection"} : TaskReturn(err)
    /\ UNCHANGED <<sigPending, sigCaught, vpnLn, vpnPc, vpnPending, vpnArrived>>
    /\ UNCHANGED <<mainVars, taskVars, qemuVars, fwdVars, icVars, histVars, pumpVars>>
    /\ UNCHANGED <<hkVars, udpVars>>

----------------------------------------------------------------------------
\* The Qemu tasks (main.go:300-315).

\* the VM connects to the Qemu socket
QemuConnArrives ==
    /\ exitStatus = Running /\ qemuLn = "open"
    /\ qemuPending + qemuAccepts < MaxQemuConns
    /\ qemuPending' = qemuPending + 1
    /\ UNCHANGED <<qemuLn, qemuSockFile, qemuCloserPc, qemuPc, qemuAccepts>>
    /\ UNCHANGED <<mainVars, groupVars, taskVars, vpnVars, fwdVars, icVars, histVars, pumpVars>>
    /\ UNCHANGED <<hkVars, udpVars>>

\* main.go:300-306: <-ctx.Done(); qemuListener.Close(); return os.Remove(qemuSocket)
QemuCloser ==
    /\ exitStatus = Running /\ qemuCloserPc = "wait"
    /\ ctxDone
    /\ qemuLn' = "closed" /\ qemuPending' = 0
    /\ qemuSockFile' = FALSE
    /\ qemuCloserPc' = "done"
    /\ \E err \in {"nil", "remove"} : TaskReturn(err)
    /\ UNCHANGED <<sigPending, sigCaught, qemuPc, qemuAccepts>>
    /\ UNCHANGED <<mainVars, taskVars, vpnVars, fwdVars, icVars, histVars, pumpVars>>
    /\ UNCHANGED <<hkVars, udpVars>>

\* main.go:308-315 with Accept in a loop, as for the VPNKit listener
QemuAcceptAgain ==
    /\ exitStatus = Running /\ qemuPc \in {"accept", "handle"}
    /\ qemuLn = "open" /\ qemuPending > 0
    /\ qemuPending' = qemuPending - 1
    /\ qemuAccepts' = qemuAccepts + 1
    /\ qemuPc' = "handle"
    /\ UNCHANGED <<qemuLn, qemuSockFile, qemuCloserPc>>
    /\ UNCHANGED <<mainVars, groupVars, taskVars, vpnVars, fwdVars, icVars, histVars, pumpVars>>
    /\ UNCHANGED <<hkVars, udpVars>>

\* main.go:309, 314: Accept returns the connection, handed to vn.AcceptQemu
QemuAccept ==
    /\ exitStatus = Running /\ qemuPc = "accept"
    /\ qemuLn = "open" /\ qemuPending > 0
    /\ qemuPending' = qemuPending - 1
    /\ qemuAccepts' = qemuAccepts + 1
    /\ qemuPc' = "handle"
    /\ UNCHANGED <<qemuLn, qemuSockFile, qemuCloserPc>>
    /\ UNCHANGED <<mainVars, groupVars, taskVars, vpnVars, fwdVars, icVars, histVars, pumpVars>>
    /\ UNCHANGED <<hkVars, udpVars>>

\* main.go:309-313: Accept fails because the listener was closed
QemuAcceptError ==
    /\ exitStatus = Running /\ qemuPc = "accept"
    /\ qemuLn = "closed"
    /\ qemuPc' = "done"
    /\ TaskReturn("qemu accept error")
    /\ UNCHANGED <<sigPending, sigCaught, qemuLn, qemuSockFile, qemuCloserPc, qemuPending, qemuAccepts>>
    /\ UNCHANGED <<mainVars, taskVars, vpnVars, fwdVars, icVars, histVars, pumpVars>>
    /\ UNCHANGED <<hkVars, udpVars>>

\* main.go:314: vn.AcceptQemu(ctx, conn) ends because the connection ended (a
\* read error) or because ctx was cancelled (nil)
AcceptQemuResult(connectionEnded) == IF connectionEnded THEN "qemu connection" ELSE "nil"

\* main.go:314: the connection of the VM ends and AcceptQemu returns
QemuConnEnds ==
    /\ exitStatus = Running /\ qemuPc = "handle"
    /\ qemuPc' = "done"
    /\ TaskReturn(AcceptQemuResult(TRUE))
    /\ UNCHANGED <<sigPending, sigCaught, qemuLn, qemuSockFile, qemuCloserPc, qemuPending, qemuAccepts>>
    /\ UNCHANGED <<mainVars, taskVars, vpnVars, fwdVars, icVars, histVars, pumpVars>>
    /\ UNCHANGED <<hkVars, udpVars>>

\* main.go:314: AcceptQemu returns because ctx is cancelled
QemuHandlerCancelled ==
    /\ exitStatus = Running /\ qemuPc = "handle"
    /\ ctxDone
    /\ qemuPc' = "done"
    /\ TaskReturn(AcceptQemuResult(FALSE))
    /\ UNCHANGED <<sigPending, sigCaught, qemuLn, qemuSockFile, qemuCloserPc, qemuPending, qemuAccepts>>
    /\ UNCHANGED <<mainVars, taskVars, vpnVars, fwdVars, icVars, histVars, pumpVars>>
    /\ UNCHANGED <<hkVars, udpVars>>

----------------------------------------------------------------------------
\* The SSH forwarder task (main.go:325-350) and what it calls in
\* ssh_forwarder.go. dest.Host is the constant "192.168.127.2:22"
\* (main.go:181, 322), so strconv.Atoi(dest.Port()) succeeds; a Unix connection
\* supports half-close, so the type assertion of ssh_forwarder.go:181 succeeds.

notPump == <<mainVars, taskVars, vpnVars, qemuVars>>
notFwd == <<notPump, pumpVars>>

\* backOff with its cap set to two seconds
backOffCappedLate(delay) ==
    LET d == IF delay = 0 THEN 5 ELSE delay * 2
    IN  IF d > 2000 THEN 2000 ELSE d

\* ssh_forwarder.go:210-220, in milliseconds
backOff(delay) ==
    LET d == IF delay = 0 THEN 5 ELSE delay * 2
    IN  IF d > 1000 THEN 1000 ELSE d

\* ssh_forwarder.go:153
InitialBackoff == 100

\* ssh_forwarder.go:156
MaxInitialDials == 60

\* ssh_forwarder.go:77, 83: the wait between reconnects and between channel opens
RetryWait == 200

\* ssh_forwarder.go:222-229: sleep returns true when the timer fires first and
\* false when ctx is done first; the timer is started by the call, so a context
\* that is already done always wins
sleep(done) == ~done

\* the test of ssh_forwarder.go:66 written `retries > 3`
RetriesExhaustedLate(r) == r > 3

\* ssh_forwarder.go:66
RetriesExhausted(r) == r > 2

\* ssh_forwarder.go:77
BastionRetriesExhausted(r) == r > 2

\* ssh_forwarder.go:34-37: os.Remove(socket) of a stale S
FwdRemoveStale ==
    /\ exitStatus = Running /\ fwdPc = "create"
    /\ \E ok \in BOOLEAN :
         IF ok THEN sockFile' = FALSE /\ fwdPc' = "listen"
               ELSE sockFile' = sockFile /\ fwdPc' = "failed"
    /\ UNCHANGED <<fwdLn, fwdPending, fwdArrived, guestConn, client, con, acceptRet,
                   retries, bastionRetries, tunnels, closerPc, sshdUp>>
    /\ UNCHANGED <<groupVars, icVars, histVars, notFwd>>
    /\ UNCHANGED <<hkVars, udpVars>>

\* ssh_forwarder.go:89-98, 106-109, 132, 153: listenUnix, then initialConnection
\* starts
FwdListen ==
    /\ exitStatus = Running /\ fwdPc = "listen"
    /\ \E ok \in BOOLEAN :
         IF ok THEN /\ fwdLn' = "open" /\ sockFile' = TRUE
                    /\ fwdPc' = "ic_loop"
               ELSE /\ fwdLn' = fwdLn /\ sockFile' = sockFile
                    /\ fwdPc' = "failed"
    /\ icI' = 0 /\ icBackoff' = InitialBackoff /\ icConn' = "none" /\ icErr' = "nil"
    /\ icDials' = 0 /\ icLastWait' = 0
    /\ UNCHANGED <<fwdPending, fwdArrived, guestConn, client, con, acceptRet,
                   retries, bastionRetries, tunnels, closerPc, sshdUp>>
    /\ UNCHANGED <<cfDials, cfProbes, cfReconn, cfLast, cfWait, tunnelsAfterCancel, dropped>>
    /\ UNCHANGED <<groupVars, notFwd>>
    /\ UNCHANGED <<hkVars, udpVars>>

\* ssh_forwarder.go:156-164: the loop condition, the cancellation check and the
\* call of connectFunc(nil)
ICAttempt ==
    /\ exitStatus = Running /\ fwdPc = "ic_loop"
    /\ IF icI < MaxInitialDials /\ ~ctxDone
       THEN fwdPc' = "ic_dial" /\ icDials' = icDials + 1
       ELSE fwdPc' = "ic_return" /\ icDials' = icDials
    /\ UNCHANGED <<sockFile, fwdLn, fwdPending, fwdArrived, guestConn, client, con,
                   acceptRet, retries, bastionRetries, tunnels, closerPc, sshdUp>>
    /\ UNCHANGED <<cfDials, cfProbes, cfReconn, cfLast, cfWait, icLastWait, tunnelsAfterCancel, dropped>>
    /\ UNCHANGED <<groupVars, icVars, notFwd>>
    /\ UNCHANGED <<hkVars, udpVars>>

\* ssh_forwarder.go:113-130: connectFunc dials sshd through the stack under a
\* context derived from ctx: it succeeds when sshd is up and ctx is not cancelled
DialSucceeds == sshdUp /\ ~ctxDone

\* ssh_forwarder.go:164-167: the dial of initialConnection ends
ICDialed ==
    /\ exitStatus = Running /\ fwdPc = "ic_dial"
    /\ LET ok == DialSucceeds IN
         /\ IF ok THEN /\ icConn' = "open" /\ icErr' = "nil"
                       /\ guestConn' = "open"
                       /\ fwdPc' = "ic_return"
                  ELSE /\ icConn' = "none" /\ icErr' = "err"
                       /\ guestConn' = guestConn
                       /\ fwdPc' = "ic_sleep"
    /\ UNCHANGED <<icI, icBackoff>>
    /\ UNCHANGED <<sockFile, fwdLn, fwdPending, fwdArrived, client, con,
                   acceptRet, retries, bastionRetries, tunnels, closerPc, sshdUp>>
    /\ UNCHANGED <<groupVars, histVars, notFwd>>
    /\ UNCHANGED <<hkVars, udpVars>>

\* ssh_forwarder.go:168-170, 156: sleep(ctx, backoff) returns (its result is
\* dropped), the backoff grows, i++
ICSleep ==
    /\ exitStatus = Running /\ fwdPc = "ic_sleep"
    /\ icLastWait' = icBackoff
    /\ icBackoff' = backOff(icBackoff)
    /\ icI' = icI + 1
    /\ fwdPc' = "ic_loop"
    /\ UNCHANGED <<icConn, icErr>>
    /\ UNCHANGED <<sockFile, fwdLn, fwdPending, fwdArrived, guestConn, client, con,
                   acceptRet, retries, bastionRetries, tunnels, closerPc, sshdUp>>
    /\ UNCHANGED <<cfDials, cfProbes, cfReconn, cfLast, cfWait, icDials, tunnelsAfterCancel, dropped>>
    /\ UNCHANGED <<groupVars, notFwd>>
    /\ UNCHANGED <<hkVars, udpVars>>

\* ssh_forwarder.go:172, 132-137, 311-376: initialConnection returns (conn, err);
\* setupProxy gives up on an error, else calls CreateBastion, which fails on a
\* bad identity and otherwise calls reconnect(initial)
ICReturn ==
    /\ exitStatus = Running /\ fwdPc = "ic_return"
    /\ IF icErr # "nil"
       THEN fwdPc' = "failed"
       ELSE \E keyOk \in BOOLEAN :
              fwdPc' = IF ~keyOk THEN "failed"
                       ELSE IF icConn = "none" THEN "cb_connect" ELSE "cb_handshake"
    /\ UNCHANGED <<sockFile, fwdLn, fwdPending, fwdArrived, guestConn, client, con,
                   acceptRet, retries, bastionRetries, tunnels, closerPc, sshdUp>>
    /\ UNCHANGED <<groupVars, icVars, histVars, notFwd>>
    /\ UNCHANGED <<hkVars, udpVars>>

\* ssh_forwarder.go:389-396 (sshclient): reconnect(nil) dials through the
\* connect callback
ReconnectDial(ok) ==
    /\ ok = DialSucceeds
    /\ guestConn' = IF ok THEN "open" ELSE guestConn

\* ssh_forwarder.go:397-403 (sshclient): ssh.NewClientConn over conn (which
\* closes conn when the handshake fails), then bastion.Client is replaced
ReconnectHandshake(ok) ==
    /\ ok = sshdUp
    /\ client' = IF ok THEN "open" ELSE client
    /\ guestConn' = IF ok THEN "ssh" ELSE "closed"

\* CreateBastion with no initial connection (ssh_forwarder.go:376, 391-396);
\* setupProxy returns its error (ssh_forwarder.go:137-140)
CbConnect ==
    /\ exitStatus = Running /\ fwdPc = "cb_connect"
    /\ \E ok \in BOOLEAN :
         /\ ReconnectDial(ok)
         /\ fwdPc' = IF ok THEN "cb_handshake" ELSE "failed"
    /\ UNCHANGED <<sockFile, fwdLn, fwdPending, fwdArrived, client, con, acceptRet,
                   retries, bastionRetries, tunnels, closerPc, sshdUp>>
    /\ UNCHANGED <<groupVars, icVars, histVars, notFwd>>
    /\ UNCHANGED <<hkVars, udpVars>>

\* CreateBastion: the SSH handshake (ssh_forwarder.go:376, 397-403); setupProxy
\* returns its error, or the SSHForward (ssh_forwarder.go:137-144)
CbHandshake ==
    /\ exitStatus = Running /\ fwdPc = "cb_handshake"
    /\ \E ok \in BOOLEAN :
         /\ ReconnectHandshake(ok)
         /\ fwdPc' = IF ok THEN "created" ELSE "failed"
    /\ UNCHANGED <<sockFile, fwdLn, fwdPending, fwdArrived, con, acceptRet,
                   retries, bastionRetries, tunnels, closerPc, sshdUp>>
    /\ UNCHANGED <<groupVars, icVars, histVars, notFwd>>
    /\ UNCHANGED <<hkVars, udpVars>>

\* main.go:326-330: CreateSSHForward failed; the deferred os.Remove(forwardSocket)
\* runs and the task returns the error
FwdCreateFailed ==
    /\ exitStatus = Running /\ fwdPc = "failed"
    /\ sockFile' = FALSE
    /\ fwdPc' = "done"
    /\ TaskReturn("CreateSSHForward")
    /\ UNCHANGED <<sigPending, sigCaught>>
    /\ UNCHANGED <<fwdLn, fwdPending, fwdArrived, guestConn, client, con, acceptRet,
                   retries, bastionRetries, tunnels, closerPc, sshdUp>>
    /\ UNCHANGED <<icVars, histVars, notFwd>>
    /\ UNCHANGED <<hkVars, udpVars>>

\* main.go:331-335: the goroutine that waits for cancellation is started
FwdStartCloser ==
    /\ exitStatus = Running /\ fwdPc = "created"
    /\ closerPc' = "wait"
    /\ fwdPc' = "loop"
    /\ UNCHANGED <<sockFile, fwdLn, fwdPending, fwdArrived, guestConn, client, con,
                   acceptRet, retries, bastionRetries, tunnels, sshdUp>>
    /\ UNCHANGED <<groupVars, icVars, histVars, notFwd>>
    /\ UNCHANGED <<hkVars, udpVars>>

----------------------------------------------------------------------------
\* The accept loop (main.go:336-349), acceptConnection and connectForward.

\* a local client connects to S
LocalConnArrives ==
    /\ exitStatus = Running /\ fwdLn = "open"
    /\ fwdArrived < MaxLocalConns
    /\ fwdArrived' = fwdArrived + 1 /\ fwdPending' = fwdPending + 1
    /\ UNCHANGED <<fwdPc, sockFile, fwdLn, guestConn, client, con, acceptRet,
                   retries, bastionRetries, tunnels, closerPc, sshdUp>>
    /\ UNCHANGED <<groupVars, icVars, histVars, notFwd>>
    /\ UNCHANGED <<hkVars, udpVars>>

\* the guest's sshd goes down; the transport under an open client is lost
SshdDies ==
    /\ exitStatus = Running /\ fwdPc \notin {"none", "done"}
    /\ sshdUp
    /\ sshdUp' = FALSE
    /\ client' = IF client = "open" THEN "dead" ELSE client
    /\ UNCHANGED <<fwdPc, sockFile, fwdLn, fwdPending, fwdArrived, guestConn, con,
                   acceptRet, retries, bastionRetries, tunnels, closerPc>>
    /\ UNCHANGED <<groupVars, icVars, histVars, notFwd>>
    /\ UNCHANGED <<hkVars, udpVars>>

\* the guest's sshd comes (back) up
SshdStarts ==
    /\ exitStatus = Running /\ fwdPc \notin {"none", "done"}
    /\ ~sshdUp
    /\ sshdUp' = TRUE
    /\ UNCHANGED <<fwdPc, sockFile, fwdLn, fwdPending, fwdArrived, guestConn, client, con,
                   acceptRet, retries, bastionRetries, tunnels, closerPc>>
    /\ UNCHANGED <<groupVars, icVars, histVars, notFwd>>
    /\ UNCHANGED <<hkVars, udpVars>>

\* the loop of main.go:337 without its `case <-ctx.Done()`
LoopNeverCancelled(done) == FALSE

\* main.go:338-340: `case <-ctx.Done(): break loop`
LoopCancelled(done) == done

\* main.go:337-344, 349 with the defer of main.go:326: the cancellation check;
\* on cancellation the loop ends, S is removed and the task returns nil;
\* otherwise AcceptAndTunnel calls listener.Accept (ssh_forwarder.go:47-48, 176)
FwdLoopCheck ==
    /\ exitStatus = Running /\ fwdPc = "loop"
    /\ IF LoopCancelled(ctxDone)
       THEN /\ fwdPc' = "done" /\ sockFile' = FALSE
       ELSE /\ fwdPc' = "accept" /\ sockFile' = sockFile
    /\ UNCHANGED <<fwdLn, fwdPending, fwdArrived, guestConn, client, con, acceptRet,
                   retries, bastionRetries, tunnels, closerPc, sshdUp>>
    /\ UNCHANGED <<groupVars, icVars, histVars, notFwd>>
    /\ UNCHANGED <<hkVars, udpVars>>

\* Accept called again while connectForward of the connection accepted before
\* is in its wait (as if every connection were handled by a task of its own)
FwdAcceptDuringConnect ==
    /\ exitStatus = Running /\ fwdPc \in {"accept", "cf_sleep"}
    /\ fwdLn = "open" /\ fwdPending > 0
    /\ fwdPending' = fwdPending - 1
    /\ con' = "open"
    /\ retries' = 1
    /\ cfDials' = 0 /\ cfProbes' = 0 /\ cfReconn' = 0 /\ cfLast' = "none" /\ cfWait' = 0
    /\ fwdPc' = "cf_dial"
    /\ UNCHANGED <<sockFile, fwdLn, fwdArrived, guestConn, client, acceptRet,
                   bastionRetries, tunnels, closerPc, sshdUp>>
    /\ UNCHANGED <<icDials, icLastWait, tunnelsAfterCancel, dropped>>
    /\ UNCHANGED <<groupVars, icVars, notFwd>>
    /\ UNCHANGED <<hkVars, udpVars>>

\* ssh_forwarder.go:176-189, 61: Accept returns a connection and connectForward
\* starts with retries = 1
FwdAccept ==
    /\ exitStatus = Running /\ fwdPc = "accept"
    /\ fwdLn = "open" /\ fwdPending > 0
    /\ fwdPending' = fwdPending - 1
    /\ con' = "open"
    /\ retries' = 1
    /\ cfDials' = 0 /\ cfProbes' = 0 /\ cfReconn' = 0 /\ cfLast' = "none" /\ cfWait' = 0
    /\ fwdPc' = "cf_dial"
    /\ UNCHANGED <<sockFile, fwdLn, fwdArrived, guestConn, client, acceptRet,
                   bastionRetries, tunnels, closerPc, sshdUp>>
    /\ UNCHANGED <<icDials, icLastWait, tunnelsAfterCancel, dropped>>
    /\ UNCHANGED <<groupVars, icVars, notFwd>>
    /\ UNCHANGED <<hkVars, udpVars>>

\* ssh_forwarder.go:176-179, main.go:344-347: Accept fails on the closed
\* listener; AcceptAndTunnel returns the error, which the loop logs
FwdAcceptError ==
    /\ exitStatus = Running /\ fwdPc = "accept"
    /\ fwdLn = "closed"
    /\ acceptRet' = "err"
    /\ fwdPc' = "loop"
    /\ UNCHANGED <<sockFile, fwdLn, fwdPending, fwdArrived, guestConn, client, con,
                   retries, bastionRetries, tunnels, closerPc, sshdUp>>
    /\ UNCHANGED <<groupVars, icVars, histVars, notFwd>>
    /\ UNCHANGED <<hkVars, udpVars>>

\* ssh_forwarder.go:190-194 handing the error of connectForward back
\* (`return err` in place of `return nil`)
ConnectFailedReturnsError ==
    /\ con' = "closed"
    /\ acceptRet' = "err"
    /\ fwdPc' = "loop"
    /\ dropped' = dropped + 1
    /\ UNCHANGED <<tunnels, tunnelsAfterCancel>>

\* ssh_forwarder.go:190-194: connectForward failed; the accepted connection is
\* closed and acceptConnection returns nil, back to the loop of main.go:337
ConnectFailed ==
    /\ con' = "closed"
    /\ acceptRet' = "nil"
    /\ fwdPc' = "loop"
    /\ dropped' = dropped + 1
    /\ UNCHANGED <<tunnels, tunnelsAfterCancel>>

\* the two ends of a forwarded connection
Sides == {"local", "ssh"}

\* ssh_forwarder.go:196-197: `go forward(src, dest)` and `go forward(dest, src)`
\* over a fresh pair of endpoints: nothing written, nothing closed
StartPumps ==
    /\ pumpPc' = [s \in Sides |-> "read"]
    /\ pumpBuf' = [s \in Sides |-> <<>>]
    /\ sent' = [s \in Sides |-> 0] /\ wire' = [s \in Sides |-> <<>>]
    /\ peerEof' = [s \in Sides |-> FALSE] /\ got' = [s \in Sides |-> <<>>]
    /\ gotEof' = [s \in Sides |-> FALSE] /\ epClosed' = [s \in Sides |-> FALSE]
    /\ owed' = [s \in Sides |-> 0]

\* ssh_forwarder.go:196-199: the two pumps are started and acceptConnection
\* returns nil, back to the loop of main.go:337
ConnectSucceeded ==
    /\ con' = "piped"
    /\ tunnels' = tunnels + 1
    /\ tunnelsAfterCancel' = tunnelsAfterCancel + (IF ctxDone THEN 1 ELSE 0)
    /\ dropped' = dropped
    /\ acceptRet' = "nil"
    /\ fwdPc' = "loop"
    /\ StartPumps

\* ssh_forwarder.go:62-68: bastion.Client.Dial("unix", Path) opens a channel;
\* it can succeed only over a live client
CfDial ==
    /\ exitStatus = Running /\ fwdPc = "cf_dial"
    /\ cfDials' = cfDials + 1
    /\ \E ok \in BOOLEAN :
         /\ ok => client = "open"
         /\ IF ok THEN ConnectSucceeded /\ cfLast' = "dial ok"
            ELSE IF RetriesExhausted(retries)
                 THEN ConnectFailed /\ cfLast' = "dial failed" /\ UNCHANGED pumpVars
                 ELSE /\ fwdPc' = "cf_probe" /\ cfLast' = "dial failed"
                      /\ UNCHANGED <<con, acceptRet, tunnels, tunnelsAfterCancel, dropped>>
                      /\ UNCHANGED pumpVars
    /\ UNCHANGED <<sockFile, fwdLn, fwdPending, fwdArrived, guestConn, client,
                   retries, bastionRetries, closerPc, sshdUp>>
    /\ UNCHANGED <<cfProbes, cfReconn, cfWait, icDials, icLastWait>>
    /\ UNCHANGED <<groupVars, icVars, notPump>>
    /\ UNCHANGED <<hkVars, udpVars>>

\* ssh_forwarder.go:70-72: SendRequest("alive@gvproxy") answers over a live
\* client and fails otherwise; on a failure the reconnect loop starts
CfProbe ==
    /\ exitStatus = Running /\ fwdPc = "cf_probe"
    /\ cfProbes' = cfProbes + 1
    /\ IF client = "open"
       THEN /\ fwdPc' = "cf_sleep" /\ cfLast' = "probe ok"
            /\ UNCHANGED <<bastionRetries, cfReconn>>
       ELSE /\ fwdPc' = "cf_connect" /\ cfLast' = "probe failed"
            /\ bastionRetries' = 1 /\ cfReconn' = 0
    /\ UNCHANGED <<sockFile, fwdLn, fwdPending, fwdArrived, guestConn, client, con,
                   acceptRet, retries, tunnels, closerPc, sshdUp>>
    /\ UNCHANGED <<cfDials, cfWait, icDials, icLastWait, tunnelsAfterCancel, dropped>>
    /\ UNCHANGED <<groupVars, icVars, notFwd>>
    /\ UNCHANGED <<hkVars, udpVars>>

\* ssh_forwarder.go:74-79: Reconnect failed: give up after the third attempt,
\* else sleep
CfReconnectFailed ==
    /\ cfLast' = "reconnect failed"
    /\ IF BastionRetriesExhausted(bastionRetries)
       THEN ConnectFailed
       ELSE /\ fwdPc' = "cf_rsleep"
            /\ UNCHANGED <<con, acceptRet, tunnels, tunnelsAfterCancel, dropped>>

\* ssh_forwarder.go:73, 379-381, 389-396: Reconnect dials sshd
CfConnect ==
    /\ exitStatus = Running /\ fwdPc = "cf_connect"
    /\ cfReconn' = cfReconn + 1
    /\ \E ok \in BOOLEAN :
         /\ ReconnectDial(ok)
         /\ IF ok THEN /\ fwdPc' = "cf_handshake"
                       /\ UNCHANGED <<con, acceptRet, tunnels, tunnelsAfterCancel, dropped, cfLast>>
                  ELSE CfReconnectFailed
    /\ UNCHANGED <<sockFile, fwdLn, fwdPending, fwdArrived, client,
                   retries, bastionRetries, closerPc, sshdUp>>
    /\ UNCHANGED <<cfDials, cfProbes, cfWait, icDials, icLastWait>>
    /\ UNCHANGED <<groupVars, icVars, notFwd>>
    /\ UNCHANGED <<hkVars, udpVars>>

\* ssh_forwarder.go:73-76, 397-403: the handshake of Reconnect; on success
\* bastion.Client is the new client and the reconnect loop ends
CfHandshake ==
    /\ exitStatus = Running /\ fwdPc = "cf_handshake"
    /\ \E ok \in BOOLEAN :
         /\ ReconnectHandshake(ok)
         /\ IF ok THEN /\ fwdPc' = "cf_sleep" /\ cfLast' = "reconnect ok"
                       /\ UNCHANGED <<con, acceptRet, tunnels, tunnelsAfterCancel, dropped>>
                  ELSE CfReconnectFailed
    /\ UNCHANGED <<sockFile, fwdLn, fwdPending, fwdArrived,
                   retries, bastionRetries, closerPc, sshdUp>>
    /\ UNCHANGED <<cfDials, cfProbes, cfReconn, cfWait, icDials, icLastWait>>
    /\ UNCHANGED <<groupVars, icVars, notFwd>>
    /\ UNCHANGED <<hkVars, udpVars>>

\* ssh_forwarder.go:77-79, 72: the sleep between two Reconnect attempts; cut
\* short by cancellation, connectForward returns the error
CfReconnectSleep ==
    /\ exitStatus = Running /\ fwdPc = "cf_rsleep"
    /\ IF sleep(ctxDone)
       THEN /\ fwdPc' = "cf_connect"
            /\ bastionRetries' = bastionRetries + 1
            /\ cfWait' = RetryWait /\ cfLast' = "slept after reconnect"
            /\ UNCHANGED <<con, acceptRet, tunnels, tunnelsAfterCancel, dropped>>
       ELSE /\ ConnectFailed
            /\ cfWait' = 0 /\ cfLast' = "sleep cut"
            /\ UNCHANGED bastionRetries
    /\ UNCHANGED <<sockFile, fwdLn, fwdPending, fwdArrived, guestConn, client,
                   retries, closerPc, sshdUp>>
    /\ UNCHANGED <<cfDials, cfProbes, cfReconn, icDials, icLastWait>>
    /\ UNCHANGED <<groupVars, icVars, notFwd>>
    /\ UNCHANGED <<hkVars, udpVars>>

\* ssh_forwarder.go:83-85, 61: the sleep before the next channel open; cut
\* short by cancellation it sets retries = 3; then retries++
CfSleep ==
    /\ exitStatus = Running /\ fwdPc = "cf_sleep"
    /\ IF sleep(ctxDone)
       THEN retries' = retries + 1 /\ cfWait' = RetryWait /\ cfLast' = "slept before dial"
       ELSE retries' = 3 + 1 /\ cfWait' = 0 /\ cfLast' = "sleep cut"
    /\ fwdPc' = "cf_dial"
    /\ UNCHANGED <<sockFile, fwdLn, fwdPending, fwdArrived, guestConn, client, con,
                   acceptRet, bastionRetries, tunnels, closerPc, sshdUp>>
    /\ UNCHANGED <<cfDials, cfProbes, cfReconn, icDials, icLastWait, tunnelsAfterCancel, dropped>>
    /\ UNCHANGED <<groupVars, icVars, notFwd>>
    /\ UNCHANGED <<hkVars, udpVars>>

----------------------------------------------------------------------------
\* The goroutine of main.go:331-335: <-ctx.Done(); forward.Close().

\* ssh_forwarder.go:51-54: listener.Close(); the connections in its backlog are
\* dropped
CloserCloseListener ==
    /\ exitStatus = Running /\ closerPc = "wait"
    /\ ctxDone
    /\ fwdLn' = "closed" /\ fwdPending' = 0
    /\ closerPc' = "bastion"
    /\ UNCHANGED <<fwdPc, sockFile, fwdArrived, guestConn, client, con, acceptRet,
                   retries, bastionRetries, tunnels, sshdUp>>
    /\ UNCHANGED <<groupVars, icVars, histVars, notFwd>>
    /\ UNCHANGED <<hkVars, udpVars>>

\* ssh_forwarder.go:55-57, 383-387: bastion.Close() closes the client that
\* bastion.Client names at this moment
CloserCloseBastion ==
    /\ exitStatus = Running /\ closerPc = "bastion"
    /\ client' = IF client = "nil" THEN client ELSE "closed"
    /\ closerPc' = "done"
    /\ UNCHANGED <<fwdPc, sockFile, fwdLn, fwdPending, fwdArrived, guestConn, con,
                   acceptRet, retries, bastionRetries, tunnels, sshdUp>>
    /\ UNCHANGED <<groupVars, icVars, histVars, notFwd>>
    /\ UNCHANGED <<hkVars, udpVars>>

----------------------------------------------------------------------------
\* The process: main, run, the tasks of the group, the forwarder and its closer.

\* no call of CreateBastion with a URL of its own is under way
HostKeyIdle ==
    /\ hkSecure = FALSE /\ hkPort = "22" /\ knownHosts = [readable |-> FALSE, lines |-> <<>>] /\ serverKey = "k1"
    /\ hkPc = "idle" /\ hkLine = 0 /\ hkSalt = "none" /\ hkKey = "nil"
    /\ hkCallback = "none" /\ hkResult = "none"

\* the NAT table with no entry
NoNat == [a \in {} |-> a]

\* no UDP flow is being handled and the NAT table is empty
UDPIdle ==
    /\ nat = NoNat /\ natLock = "free" /\ natChanges = 0 /\ udpFlows = 0
    /\ udpPc = "idle" /\ udpDst = <<>> /\ udpPort = 0 /\ udpLocal = <<>>
    /\ udpEp = FALSE /\ udpProxy = FALSE /\ udpDialed = <<>> /\ natAtLookup = NoNat

\* the state of the process right after flag.Parse (main.go:53)
InitProcess ==
    /\ flags \in FlagSpace
    /\ mainPc = "init" /\ exitCode = 0 /\ deferredExit = Running /\ exitStatus = Running
    /\ forwards = {}
    /\ ctxDone = FALSE /\ groupErr = "nil" /\ sigPending = FALSE /\ sigCaught = FALSE
    /\ runPc = "none" /\ sigPc = "none"
    /\ httpLn = "none" /\ httpCloserPc = "none" /\ httpServePc = "none"
    /\ vpnLn = "none" /\ vpnPc = "none" /\ vpnPending = 0 /\ vpnArrived = 0
    /\ vpnHandlers = 0
    /\ qemuLn = "none" /\ qemuSockFile = FALSE /\ qemuCloserPc = "none"
    /\ qemuPc = "none" /\ qemuPending = 0 /\ qemuAccepts = 0
    /\ fwdPc = "none" /\ sockFile = FALSE /\ fwdLn = "none" /\ fwdPending = 0
    /\ sshdUp = TRUE
    /\ fwdArrived = 0 /\ guestConn = "none" /\ client = "nil" /\ con = "none"
    /\ acceptRet = "none" /\ retries = 0 /\ bastionRetries = 0 /\ tunnels = 0
    /\ closerPc = "none"
    /\ icI = 0 /\ icBackoff = 0 /\ icConn = "none" /\ icErr = "nil"
    /\ cfDials = 0 /\ cfProbes = 0 /\ cfReconn = 0 /\ cfLast = "none" /\ cfWait = 0
    /\ icDials = 0 /\ icLastWait = 0 /\ tunnelsAfterCancel = 0 /\ dropped = 0
    /\ sent = [s \in Sides |-> 0] /\ wire = [s \in Sides |-> <<>>]
    /\ peerEof = [s \in Sides |-> FALSE] /\ got = [s \in Sides |-> <<>>]
    /\ gotEof = [s \in Sides |-> FALSE] /\ epClosed = [s \in Sides |-> FALSE]
    /\ pumpPc = [s \in Sides |-> "none"] /\ pumpBuf = [s \in Sides |-> <<>>]
    /\ owed = [s \in Sides |-> 0]

Init == InitProcess /\ HostKeyIdle /\ UDPIdle

MainNext ==
    \/ MainDefer \/ MainValidateFail \/ MainStart \/ MainWait \/ MainReturn
    \/ SigWaiterSignal \/ SigWaiterCancelled
    \/ RunNew \/ RunListen \/ RunVpnkit \/ RunQemu \/ RunForward
    \/ HttpCloser \/ HttpServeReturn
    \/ VpnCheck \/ VpnAccept
    \/ QemuCloser \/ QemuAccept \/ QemuAcceptError \/ QemuHandlerCancelled

\* the forwarder task up to its accept loop, and its closer
FwdStartNext ==
    \/ FwdRemoveStale \/ FwdListen \/ ICAttempt \/ ICDialed \/ ICSleep \/ ICReturn
    \/ CbConnect \/ CbHandshake \/ FwdCreateFailed \/ FwdStartCloser
    \/ FwdLoopCheck \/ FwdAcceptError
    \/ CloserCloseListener \/ CloserCloseBastion

\* the forwarder serving a local connection
FwdServeNext ==
    \/ FwdAccept \/ CfDial \/ CfProbe \/ CfConnect \/ CfHandshake
    \/ CfReconnectSleep \/ CfSleep

\* what the environment of the process does: a signal, VM-side clients
\* connecting, their connections ending
EnvNext ==
    \/ Signal
    \/ VpnConnArrives \/ VpnAcceptError \/ VpnHandlerReturn
    \/ QemuConnArrives \/ QemuConnEnds

\* what the environment of the forwarder does
FwdEnvNext == LocalConnArrives \/ SshdDies \/ SshdStarts

\* The process while the guest's sshd stays up and no local client connects to
\* S (so the actions of FwdServeNext are never enabled).
Next == MainNext \/ FwdStartNext \/ EnvNext

Spec == Init /\ [][Next]_vars

\* The process started with the four --forward-* flags and neither
\* --listen-vpnkit nor --listen-qemu, with local clients connecting to S and the
\* guest's sshd going down and up.
FwdFlags ==
    [vpnkitSocket |-> "", qemuSocket |-> "", sshPort |-> 2222,
     forwardSocket |-> "ok", forwardDest |-> "ok", forwardUser |-> "ok",
     forwardIdentify |-> "ok"]

InitFwd == Init /\ flags = FwdFlags

NextFwd ==
    \/ MainDefer \/ MainStart \/ MainWait \/ MainReturn
    \/ SigWaiterSignal \/ SigWaiterCancelled
    \/ RunNew \/ RunListen \/ RunVpnkit \/ RunQemu \/ RunForward
    \/ HttpCloser \/ HttpServeReturn
    \/ FwdStartNext \/ FwdServeNext
    \/ Signal \/ FwdEnvNext

SpecFwd == InitFwd /\ [][NextFwd]_vars

----------------------------------------------------------------------------
\* Fairness: every goroutine of the process keeps running while it can take a
\* step. Nothing is assumed of the environment (EnvNext).

MainFairness ==
    /\ WF_vars(MainDefer \/ MainValidateFail \/ MainStart \/ MainWait \/ MainReturn)
    /\ WF_vars(SigWaiterSignal \/ SigWaiterCancelled)
    /\ WF_vars(RunNew \/ RunListen \/ RunVpnkit \/ RunQemu \/ RunForward)
    /\ WF_vars(HttpCloser)
    /\ WF_vars(HttpServeReturn)
    /\ WF_vars(VpnCheck \/ VpnAccept)
    /\ WF_vars(QemuCloser)
    /\ WF_vars(QemuAccept \/ QemuAcceptError \/ QemuHandlerCancelled)
    /\ WF_vars(FwdRemoveStale \/ FwdListen \/ ICAttempt \/ ICDialed \/ ICSleep
               \/ ICReturn \/ CbConnect \/ CbHandshake \/ FwdCreateFailed
               \/ FwdStartCloser \/ FwdLoopCheck \/ FwdAcceptError)
    /\ WF_vars(CloserCloseListener \/ CloserCloseBastion)

FairSpec == Spec /\ MainFairness

----------------------------------------------------------------------------
\* Claims about the process (Spec, FairSpec).

Exited == exitStatus # Running

\* the errors run returns (main.go:225-236, 268-271, 295-298)
RunErrors == {"virtualnetwork.New", "cannot listen", "vpnkit listen", "qemu listen"}

\* C1: once a signal was received, the root context is cancelled, every task of
\* the group returns, groupErrs.Wait returns and the process exits: a blocked
\* Accept is unblocked by the close of its listener. (A VPNKit connection
\* handler still serving its connection is not held against the claim: what
\* ends vn.AcceptVpnKit lies outside these files.)
C1_SignalLeadsToExit == (sigCaught /\ mainPc = "wait") ~> (Exited \/ vpnHandlers > 0)

\* C9: the process ends with status 1 when flag validation fails or run
\* returns an error, and with status 0 on a shutdown triggered by a signal.
C9_ExitStatus ==
    Exited =>
        /\ (ValidationError(flags) # "" => exitStatus = 1)
        /\ (groupErr \in RunErrors => exitStatus = 1)
        /\ (groupErr = "signal caught" => exitStatus = 0)

\* C10: with the Qemu dialect, once AcceptQemu has returned for the accepted
\* connection the root context is cancelled, and when the group has drained the
\* process ends with a non-zero status.
C10_QemuExitNonZero ==
    (qemuPc = "done" /\ qemuAccepts > 0) =>
        /\ ctxDone
        /\ (Exited => exitStatus # 0)

\* C11: the Qemu listener accepts at most one connection in the life of the
\* process: a connection is accepted only while none was accepted before, and
\* none once the accept task has ended; the VPNKit loop goes
\* back to its cancellation check after every Accept and ends only once the
\* context is cancelled.
C11_QemuAcceptsOnce ==
    /\ [](qemuAccepts <= 1)
    /\ [][qemuAccepts' > qemuAccepts => qemuAccepts = 0]_vars
    /\ [][qemuPc = "done" => qemuAccepts' = qemuAccepts]_vars
    /\ [][(vpnPc = "accept" /\ vpnPc' # vpnPc) => vpnPc' = "check"]_vars
    /\ [](vpnPc = "done" => ctxDone)

\* C11 witness: the one accepted Qemu connection has ended and a second
\* connection waits on the listener, never to be accepted.
C11_Witness ==
    /\ qemuAccepts = 1 /\ qemuPc = "done" /\ qemuLn = "open" /\ qemuPending = 1

----------------------------------------------------------------------------
\* Claims about the forwarder (SpecFwd).

\* the forwarder task is inside connectForward
InConnectForward ==
    fwdPc \in {"cf_dial", "cf_probe", "cf_connect", "cf_handshake", "cf_rsleep", "cf_sleep"}

\* C2: when connectForward fails for an accepted connection (it returns without
\* a tunnel), that connection is closed, AcceptAndTunnel returns no error, the
\* listener and the bastion's client are left as they are and the task is back
\* at the head of its accept loop; and the forwarder task, once in its loop,
\* ends only after cancellation.
C2_FailureDropsOneConnection ==
    /\ [][(InConnectForward /\ ~InConnectForward' /\ tunnels' = tunnels)
            => /\ con = "open" /\ con' = "closed"
               /\ acceptRet' = "nil"
               /\ fwdLn' = fwdLn /\ client' = client
               /\ fwdPc' = "loop"]_vars
    /\ []((fwdPc = "done" /\ closerPc # "none") => ctxDone)

\* C2 witness: two accepted connections were dropped in a row, the listener is
\* still open, nothing was cancelled and the loop is accepting again.
C2_Witness ==
    /\ dropped = 2 /\ tunnels = 0 /\ ~ctxDone
    /\ fwdPc = "accept" /\ fwdLn = "open" /\ con = "closed" /\ acceptRet = "nil"

\* C3: in connectForward a probe follows a failed channel open, a Reconnect
\* follows a failed probe or a full 200 ms wait after a failed Reconnect, a
\* failed probe is followed by at most 3 Reconnects, and at most 3 channel
\* opens (hence at most 2 probes) are made for one accepted connection.
C3_ConnectForwardOrder ==
    /\ [][cfProbes' > cfProbes => cfLast = "dial failed"]_vars
    /\ [][cfReconn' > cfReconn =>
            \/ cfLast = "probe failed"
            \/ (cfLast = "slept after reconnect" /\ cfWait = 200)]_vars
    /\ [](cfDials <= 3 /\ cfProbes <= 2 /\ cfReconn <= 3)

\* C3 witness: connectForward gave up after its third channel open, having
\* probed twice and reconnected three times after a failed probe.
C3_Witness ==
    /\ cfDials = 3 /\ cfProbes = 2 /\ cfReconn = 3 /\ cfWait = 200
    /\ dropped > 0 /\ fwdPc = "loop" /\ cfLast = "dial failed"

\* the wait initialConnection asks for after its k-th failed dial, in ms
ExpectedWait(k) == IF k >= 5 THEN 1000 ELSE 100 * (2 ^ (k - 1))

\* C4: initialConnection dials at most 60 times, dials only while the context
\* is not cancelled and no dial has succeeded, and after its k-th failed dial
\* asks for a wait of 100, 200, 400, 800 and then 1000 ms.
C4_InitialConnection ==
    /\ [](icDials <= 60)
    /\ [][icDials' > icDials => (~ctxDone /\ icConn = "none")]_vars
    /\ [][(fwdPc = "ic_sleep" /\ fwdPc' = "ic_loop")
            => icLastWait' = ExpectedWait(icDials)]_vars

\* C4 witness: initialConnection returns after 60 failed dials, the last wait
\* having been of one second.
C4_Witness == icDials = 60 /\ fwdPc = "ic_return" /\ icConn = "none" /\ icLastWait = 1000

\* C7: after shutdown (Close has run and the accept loop has exited) no SSH
\* client of the bastion is open.
C7_NoClientLeftOpen == (fwdPc = "done" /\ closerPc = "done") => client # "open"

\* C8 as stated: once the context is cancelled the accept loop starts no new
\* tunnel, and S is unlinked when the forwarder task has returned.
C8_NoTunnelAfterCancel ==
    /\ [][ctxDone => tunnels' = tunnels]_vars
    /\ [](fwdPc = "done" => ~sockFile)

\* C8 amended: after cancellation the closer closes the listener; an Accept on
\* the closed listener returns an error and starts no tunnel; the loop ends at
\* its next cancellation check, so that at most one tunnel (that of the
\* iteration in progress) starts after cancellation; and S is unlinked when the
\* forwarder task has returned.
C8_ShutdownForwarder ==
    /\ []((ctxDone /\ fwdPc = "accept") => closerPc # "none")
    /\ []((ctxDone /\ closerPc \in {"bastion", "done"}) => fwdLn = "closed")
    /\ [][(fwdPc = "accept" /\ fwdLn = "closed" /\ fwdPc' # fwdPc)
            => (acceptRet' = "err" /\ tunnels' = tunnels /\ fwdPc' = "loop")]_vars
    /\ [][(ctxDone /\ fwdPc = "loop" /\ fwdPc' # fwdPc) => fwdPc' = "done"]_vars
    /\ [](tunnelsAfterCancel <= 1)
    /\ [](fwdPc = "done" => ~sockFile)

\* C8 witness: an Accept was aborted by the close of the listener after
\* cancellation, the loop has ended and S is gone.
C8_Witness ==
    /\ ctxDone /\ fwdLn = "closed" /\ acceptRet = "err"
    /\ fwdPc = "done" /\ closerPc # "none" /\ ~sockFile

----------------------------------------------------------------------------
\* One forwarded connection: the two goroutines of ssh_forwarder.go:196-197,
\* each running forward(src, dest) (ssh_forwarder.go:202-208), and the two
\* peers. The pump of side s reads the endpoint of s and writes the endpoint of
\* the other side.

Other(s) == IF s = "local" THEN "ssh" ELSE "local"

\* the SSH channel lives on the client the bastion had when it was opened: it is
\* gone once that client is closed (ssh_forwarder.go:55-57, 383-387)
ChannelDead == client # "open"

\* reads and writes on the endpoint of side s fail
EndpointDown(s) == epClosed[s] \/ (s = "ssh" /\ ChannelDead)

\* the peer of side s writes one byte; its bytes are numbered 1, 2, ...
PeerWrite(s) ==
    /\ exitStatus = Running /\ pumpPc[s] # "none"
    /\ ~peerEof[s] /\ ~EndpointDown(s)
    /\ sent[s] < MaxBytes
    /\ sent' = [sent EXCEPT ![s] = @ + 1]
    /\ wire' = [wire EXCEPT ![s] = Append(@, sent[s] + 1)]
    /\ UNCHANGED <<peerEof, got, gotEof, epClosed, pumpPc, pumpBuf, owed>>
    /\ UNCHANGED <<groupVars, fwdVars, icVars, histVars, notPump>>
    /\ UNCHANGED <<hkVars, udpVars>>

\* the peer of side s shuts down its write half (a half-close)
PeerCloseWrite(s) ==
    /\ exitStatus = Running /\ pumpPc[s] # "none"
    /\ ~peerEof[s]
    /\ peerEof' = [peerEof EXCEPT ![s] = TRUE]
    /\ UNCHANGED <<sent, wire, got, gotEof, epClosed, pumpPc, pumpBuf, owed>>
    /\ UNCHANGED <<groupVars, fwdVars, icVars, histVars, notPump>>
    /\ UNCHANGED <<hkVars, udpVars>>

\* ssh_forwarder.go:204: io.Copy's src.Read returns: some of the bytes that
\* have arrived; or end-of-stream once the peer has shut down its write half and
\* everything was read; or an error on a dead endpoint. Otherwise Read blocks.
PumpRead(s) ==
    /\ exitStatus = Running /\ pumpPc[s] = "read"
    /\ \/ \E k \in 1..Len(wire[s]) :
            /\ pumpBuf' = [pumpBuf EXCEPT ![s] = SubSeq(wire[s], 1, k)]
            /\ wire' = [wire EXCEPT ![s] = SubSeq(@, k + 1, Len(@))]
            /\ pumpPc' = [pumpPc EXCEPT ![s] = "write"]
            /\ owed' = owed
       \/ /\ wire[s] = <<>> /\ peerEof[s]
          /\ pumpPc' = [pumpPc EXCEPT ![s] = "closewrite"]
          /\ owed' = [owed EXCEPT ![s] =
                        Len(got[s]) + Len(pumpBuf[Other(s)]) + Len(wire[Other(s)])]
          /\ UNCHANGED <<wire, pumpBuf>>
       \/ /\ EndpointDown(s)
          /\ pumpPc' = [pumpPc EXCEPT ![s] = "closewrite"]
          /\ UNCHANGED <<wire, pumpBuf, owed>>
    /\ UNCHANGED <<sent, peerEof, got, gotEof, epClosed>>
    /\ UNCHANGED <<groupVars, fwdVars, icVars, histVars, notPump>>
    /\ UNCHANGED <<hkVars, udpVars>>

\* io.Copy's dest.Write putting the bytes before those already written
PumpWritePrepends(s) ==
    /\ exitStatus = Running /\ pumpPc[s] = "write"
    /\ IF EndpointDown(Other(s))
       THEN /\ pumpPc' = [pumpPc EXCEPT ![s] = "closewrite"]
            /\ got' = got
       ELSE /\ pumpPc' = [pumpPc EXCEPT ![s] = "read"]
            /\ got' = [got EXCEPT ![Other(s)] = pumpBuf[s] \o @]
    /\ pumpBuf' = [pumpBuf EXCEPT ![s] = <<>>]
    /\ UNCHANGED <<sent, wire, peerEof, gotEof, epClosed, owed>>
    /\ UNCHANGED <<groupVars, fwdVars, icVars, histVars, notPump>>
    /\ UNCHANGED <<hkVars, udpVars>>

\* ssh_forwarder.go:204: io.Copy's dest.Write: the bytes reach the other peer, or
\* the write fails on a dead endpoint and io.Copy returns
PumpWrite(s) ==
    /\ exitStatus = Running /\ pumpPc[s] = "write"
    /\ IF EndpointDown(Other(s))
       THEN /\ pumpPc' = [pumpPc EXCEPT ![s] = "closewrite"]
            /\ got' = got
       ELSE /\ pumpPc' = [pumpPc EXCEPT ![s] = "read"]
            /\ got' = [got EXCEPT ![Other(s)] = @ \o pumpBuf[s]]
    /\ pumpBuf' = [pumpBuf EXCEPT ![s] = <<>>]
    /\ UNCHANGED <<sent, wire, peerEof, gotEof, epClosed, owed>>
    /\ UNCHANGED <<groupVars, fwdVars, icVars, histVars, notPump>>
    /\ UNCHANGED <<hkVars, udpVars>>

\* ssh_forwarder.go:207: dest.CloseWrite() (its error is dropped)
PumpCloseWrite(s) ==
    /\ exitStatus = Running /\ pumpPc[s] = "closewrite"
    /\ gotEof' = [gotEof EXCEPT ![Other(s)] = @ \/ ~EndpointDown(Other(s))]
    /\ pumpPc' = [pumpPc EXCEPT ![s] = "close"]
    /\ UNCHANGED <<sent, wire, peerEof, got, epClosed, pumpBuf, owed>>
    /\ UNCHANGED <<groupVars, fwdVars, icVars, histVars, notPump>>
    /\ UNCHANGED <<hkVars, udpVars>>

\* ssh_forwarder.go:203: the deferred src.Close(), and the goroutine ends
PumpClose(s) ==
    /\ exitStatus = Running /\ pumpPc[s] = "close"
    /\ epClosed' = [epClosed EXCEPT ![s] = TRUE]
    /\ pumpPc' = [pumpPc EXCEPT ![s] = "done"]
    /\ UNCHANGED <<sent, wire, peerEof, got, gotEof, pumpBuf, owed>>
    /\ UNCHANGED <<groupVars, fwdVars, icVars, histVars, notPump>>
    /\ UNCHANGED <<hkVars, udpVars>>

\* The process with the four --forward-* flags once its first tunnel is up: run
\* has returned, the endpoint is served, the bastion is connected, one local
\* connection was accepted and piped, and the loop is back in Accept.
InitPump ==
    /\ flags = FwdFlags
    /\ mainPc = "wait" /\ exitCode = 0 /\ deferredExit = 0 /\ exitStatus = Running
    /\ forwards = BuildForwards(FwdFlags.sshPort)
    /\ ctxDone = FALSE /\ groupErr = "nil" /\ sigPending = FALSE /\ sigCaught = FALSE
    /\ runPc = "done" /\ sigPc = "wait"
    /\ httpLn = "open" /\ httpCloserPc = "wait" /\ httpServePc = "serve"
    /\ vpnLn = "none" /\ vpnPc = "none" /\ vpnPending = 0 /\ vpnArrived = 0
    /\ vpnHandlers = 0
    /\ qemuLn = "none" /\ qemuSockFile = FALSE /\ qemuCloserPc = "none"
    /\ qemuPc = "none" /\ qemuPending = 0 /\ qemuAccepts = 0
    /\ fwdPc = "accept" /\ sockFile = TRUE /\ fwdLn = "open" /\ fwdPending = 0
    /\ sshdUp = TRUE
    /\ fwdArrived = 1 /\ guestConn = "ssh" /\ client = "open" /\ con = "piped"
    /\ acceptRet = "nil" /\ retries = 1 /\ bastionRetries = 0 /\ tunnels = 1
    /\ closerPc = "wait"
    /\ icI = 0 /\ icBackoff = InitialBackoff /\ icConn = "open" /\ icErr = "nil"
    /\ cfDials = 1 /\ cfProbes = 0 /\ cfReconn = 0 /\ cfLast = "dial ok" /\ cfWait = 0
    /\ icDials = 1 /\ icLastWait = 0 /\ tunnelsAfterCancel = 0 /\ dropped = 0
    /\ sent = [s \in Sides |-> 0] /\ wire = [s \in Sides |-> <<>>]
    /\ peerEof = [s \in Sides |-> FALSE] /\ got = [s \in Sides |-> <<>>]
    /\ gotEof = [s \in Sides |-> FALSE] /\ epClosed = [s \in Sides |-> FALSE]
    /\ pumpPc = [s \in Sides |-> "read"] /\ pumpBuf = [s \in Sides |-> <<>>]
    /\ owed = [s \in Sides |-> 0]
    /\ HostKeyIdle /\ UDPIdle

\* the two pumps
PumpNext ==
    \E s \in Sides : PumpRead(s) \/ PumpWrite(s) \/ PumpCloseWrite(s) \/ PumpClose(s)

\* the two peers
PeerNext == \E s \in Sides : PeerWrite(s) \/ PeerCloseWrite(s)

\* the shutdown of the process on a signal
ShutdownNext ==
    \/ Signal \/ SigWaiterSignal
    \/ HttpCloser \/ HttpServeReturn
    \/ CloserCloseListener \/ CloserCloseBastion
    \/ FwdAcceptError \/ FwdLoopCheck
    \/ MainWait \/ MainReturn

NextPump == PumpNext \/ PeerNext \/ ShutdownNext

SpecPump == InitPump /\ [][NextPump]_vars

\* each pump goroutine keeps running while it can take a step; nothing is
\* assumed of the peers
PumpFairness ==
    \A s \in Sides :
        WF_vars(PumpRead(s) \/ PumpWrite(s) \/ PumpCloseWrite(s) \/ PumpClose(s))

FairSpecPump == SpecPump /\ MainFairness /\ PumpFairness

----------------------------------------------------------------------------
\* Claims about one forwarded connection (SpecPump, FairSpecPump).

\* C5: when the peer of side s half-closes, end-of-stream is passed on to the
\* other peer by CloseWrite, and the endpoint of s is closed only after the
\* bytes that were in flight towards s at that moment have been delivered to it.
C5_HalfCloseDelivers ==
    /\ [][\A s \in Sides :
            (~epClosed[s] /\ epClosed'[s]) => Len(got[s]) >= owed[s]]_vars
    /\ [](\A s \in Sides :
            (pumpPc[s] \in {"close", "done"} /\ ~EndpointDown(Other(s)))
                => gotEof[Other(s)])

\* both pumps have ended and both endpoints are closed
PumpsDone == \A s \in Sides : pumpPc[s] = "done" /\ epClosed[s]

\* C6: once a peer has closed its stream, or the forwarder was closed on
\* cancellation, both pumps end and both endpoints are closed (unless the
\* process exits first: os.Exit ends every goroutine).
C6_PumpsTerminate ==
    ((\E s \in Sides : peerEof[s]) \/ closerPc = "done") ~> (PumpsDone \/ Exited)

\* ---------------------------------------------------------------------------
\* sshclient.CreateBastion's host-key policy (ssh_forwarder.go:280-309, 330-347)
\* and the handshake of reconnect (ssh_forwarder.go:389-404).

MaxKnownHostsLines == 2

\* the host of the URL, the ports and the host keys the inputs are drawn from
BastionHost == "gw"
HostPorts == {"22", "2222"}
HostKeys == {"k1", "k2"}
\* the salts of hashed entries; HashHostname draws one at random at every call
Salts == {"s0", "s1"}

\* ssh_forwarder.go:339-342: the name looked up is the hostname, or
\* "[hostname]:port" when the port is not 22
HostForm(hostname, port) ==
    IF port # "22" THEN <<"[", hostname, "]:", port>> ELSE <<hostname>>

\* knownhosts.HashHostname (ssh_forwarder.go:291): the hashed form of a name
\* under a salt
HashHostname(host, salt) == <<"|1|", salt, host>>

\* the lines a known_hosts file is made of: a line that does not parse, or the
\* names (plain or hashed) and the key of an entry
KnownHostsLines ==
    {[hosts |-> {}, key |-> "garbage"]}
    \cup {[hosts |-> {HostForm(BastionHost, p)}, key |-> k] :
            p \in HostPorts, k \in HostKeys}
    \cup {[hosts |-> {HashHostname(HostForm(BastionHost, "22"), "s0")}, key |-> "k1"],
          [hosts |-> {HostForm("other", "22")}, key |-> "k2"]}

RECURSIVE SeqsUpTo(_, _)
SeqsUpTo(S, n) ==
    IF n = 0 THEN {<<>>}
    ELSE LET shorter == SeqsUpTo(S, n - 1)
         IN  shorter \cup {Append(q, x) : q \in {r \in shorter : Len(r) = n - 1}, x \in S}

\* ~/.ssh/known_hosts: a file that cannot be opened, or its lines
KnownHostsFiles ==
    {[readable |-> FALSE, lines |-> <<>>]}
    \cup {[readable |-> TRUE, lines |-> q] :
            q \in SeqsUpTo(KnownHostsLines, MaxKnownHostsLines)}

\* ssh_forwarder.go:335-338: the callback starts as InsecureIgnoreHostKey;
\* only a secure URL looks the host up
HkStart ==
    /\ hkPc = "start"
    /\ hkCallback' = "insecure"
    /\ hkPc' = IF hkSecure THEN "open" ELSE "handshake"
    /\ UNCHANGED <<hkSecure, hkPort, knownHosts, serverKey, hkLine, hkSalt, hkKey, hkResult>>
    /\ UNCHANGED <<procVars, udpVars>>

\* ssh_forwarder.go:283-291: HostKey opens the file (nil when it cannot) and
\* hashes the name
HkOpen ==
    /\ hkPc = "open"
    /\ IF ~knownHosts.readable
       THEN hkKey' = "nil" /\ hkPc' = "config" /\ UNCHANGED hkSalt
       ELSE \E salt \in Salts : hkSalt' = salt /\ hkPc' = "scan" /\ UNCHANGED hkKey
    /\ hkLine' = 0
    /\ UNCHANGED <<hkSecure, hkPort, knownHosts, serverKey, hkCallback, hkResult>>
    /\ UNCHANGED <<procVars, udpVars>>

\* ssh_forwarder.go:301-305: a line matches when one of its names is the name
\* looked up or the hash HostKey computed
LineMatches(line, host, hashhost) ==
    line.key # "garbage" /\ \E h \in line.hosts : h = host \/ h = hashhost

\* ssh_forwarder.go:293-308: one round of the scan; the key of the first
\* matching line is returned, nil at the end of the file
HkScan ==
    /\ hkPc = "scan"
    /\ LET host == HostForm(BastionHost, hkPort)
       IN  IF hkLine = Len(knownHosts.lines)
           THEN hkKey' = "nil" /\ hkPc' = "config" /\ UNCHANGED hkLine
           ELSE IF LineMatches(knownHosts.lines[hkLine + 1], host, HashHostname(host, hkSalt))
                THEN /\ hkKey' = knownHosts.lines[hkLine + 1].key
                     /\ hkPc' = "config" /\ UNCHANGED hkLine
                ELSE hkLine' = hkLine + 1 /\ UNCHANGED <<hkKey, hkPc>>
    /\ UNCHANGED <<hkSecure, hkPort, knownHosts, serverKey, hkSalt, hkCallback, hkResult>>
    /\ UNCHANGED <<procVars, udpVars>>

\* ssh_forwarder.go:343-346: the callback becomes FixedHostKey only when
\* HostKey returned a key
HkConfig ==
    /\ hkPc = "config"
    /\ hkCallback' = IF hkKey # "nil" THEN "fixed" ELSE hkCallback
    /\ hkPc' = "handshake"
    /\ UNCHANGED <<hkSecure, hkPort, knownHosts, serverKey, hkLine, hkSalt, hkKey, hkResult>>
    /\ UNCHANGED <<procVars, udpVars>>

\* what the callback says of a key: InsecureIgnoreHostKey accepts every key,
\* FixedHostKey the one key it was made of
HostKeyCallback(callback, fixed, presented) ==
    IF callback = "fixed" /\ presented # fixed THEN "rejected" ELSE "accepted"

\* ssh_forwarder.go:398-400: the handshake of reconnect hands the server's key
\* to the callback
HkHandshake ==
    /\ hkPc = "handshake"
    /\ hkResult' = HostKeyCallback(hkCallback, hkKey, serverKey)
    /\ hkPc' = "done"
    /\ UNCHANGED <<hkSecure, hkPort, knownHosts, serverKey, hkLine, hkSalt, hkKey, hkCallback>>
    /\ UNCHANGED <<procVars, udpVars>>

\* one call of CreateBastion for every URL, known_hosts file and server key
InitHostKey ==
    /\ InitProcess /\ flags = FwdFlags /\ UDPIdle
    /\ hkSecure \in BOOLEAN /\ hkPort \in HostPorts
    /\ knownHosts \in KnownHostsFiles /\ serverKey \in HostKeys
    /\ hkPc = "start" /\ hkLine = 0 /\ hkSalt = "none" /\ hkKey = "nil"
    /\ hkCallback = "none" /\ hkResult = "none"

NextHostKey == HkStart \/ HkOpen \/ HkScan \/ HkConfig \/ HkHandshake

SpecHostKey == InitHostKey /\ [][NextHostKey]_vars

\* the known_hosts file has an entry for the host of the URL, under its plain
\* name or under a hash of it
HostIsKnown ==
    /\ knownHosts.readable
    /\ \E i \in 1..Len(knownHosts.lines), salt \in Salts :
         LineMatches(knownHosts.lines[i], HostForm(BastionHost, hkPort),
                     HashHostname(HostForm(BastionHost, hkPort), salt))

\* the known_hosts file has an entry for the host of the URL with this key
KeyIsKnown(k) ==
    /\ knownHosts.readable
    /\ \E i \in 1..Len(knownHosts.lines), salt \in Salts :
         /\ LineMatches(knownHosts.lines[i], HostForm(BastionHost, hkPort),
                        HashHostname(HostForm(BastionHost, hkPort), salt))
         /\ knownHosts.lines[i].key = k

\* C12: once the handshake has judged the server's key: with secure=true the
\* key is accepted only if known_hosts holds a matching entry for the host
\* (plain or hashed) with that key, and it is rejected when known_hosts
\* holds no entry for the host at all; without secure=true every key is accepted.
C12_HostKeyPolicy ==
    hkResult # "none" =>
        /\ (hkSecure /\ hkResult = "accepted") => KeyIsKnown(serverKey)
        /\ (hkSecure /\ ~HostIsKnown) => hkResult = "rejected"
        /\ ~hkSecure => hkResult = "accepted"

\* ---------------------------------------------------------------------------
\* The UDP forwarder (part_000:16-41): the handler the stack calls for every new
\* flow, the proxy it starts, and the control surface writing the NAT table.

MaxNatChanges == 2
MaxUDPFlows == 2

\* the addresses flows go to and NAT entries map: the virtual host address, an
\* outside address, a link-local one, and loopback
UDPAddresses == {<<192, 168, 127, 254>>, <<10, 0, 0, 5>>, <<169, 254, 1, 1>>, <<127, 0, 0, 1>>}
UDPPorts == {53, 5353}

\* the keys the NAT table may hold
NatKeys == {<<192, 168, 127, 254>>, <<10, 0, 0, 5>>}

\* linkLocal().Contains (part_000:20): the address is in 169.254.0.0/16
linkLocal(a) == a[1] = 169 /\ a[2] = 254

\* part_000:25-27: the mapped value when the address is a key of the table, the
\* address itself otherwise
NatLookup(table, a) == IF a \in DOMAIN table THEN table[a] ELSE a

\* the table with the entry of k set to v
NatWith(table, k, v) ==
    [a \in DOMAIN table \cup {k} |-> IF a = k THEN v ELSE table[a]]

\* the table without an entry of k
NatWithout(table, k) == [a \in DOMAIN table \ {k} |-> table[a]]

\* the control surface takes the mutex of the table
NatWriterLock ==
    /\ natLock = "free" /\ natChanges < MaxNatChanges
    /\ natLock' = "writer"
    /\ UNCHANGED <<nat, natChanges, udpFlows, udpPc, udpDst, udpPort, udpLocal,
                   udpEp, udpProxy, udpDialed, natAtLookup>>
    /\ UNCHANGED <<procVars, hkVars>>

\* the control surface adds, replaces or removes an entry and releases the mutex
NatWrite ==
    /\ natLock = "writer"
    /\ \/ \E k \in NatKeys : \E v \in UDPAddresses \ {k} : nat' = NatWith(nat, k, v)
       \/ \E k \in DOMAIN nat : nat' = NatWithout(nat, k)
    /\ natChanges' = natChanges + 1
    /\ natLock' = "free"
    /\ UNCHANGED <<udpFlows, udpPc, udpDst, udpPort, udpLocal,
                   udpEp, udpProxy, udpDialed, natAtLookup>>
    /\ UNCHANGED <<procVars, hkVars>>

\* part_000:17-18: the stack hands a new flow to the handler
UdpRequest ==
    /\ udpPc = "idle" /\ udpFlows < MaxUDPFlows
    /\ \E d \in UDPAddresses, port \in UDPPorts :
         udpDst' = d /\ udpPort' = port /\ udpLocal' = d
    /\ udpFlows' = udpFlows + 1
    /\ udpEp' = FALSE /\ udpProxy' = FALSE /\ udpDialed' = <<>>
    /\ natAtLookup' = NoNat
    /\ udpPc' = "linklocal"
    /\ UNCHANGED <<nat, natLock, natChanges>>
    /\ UNCHANGED <<procVars, hkVars>>

\* part_000:20-22: a link-local destination is ignored
UdpLinkLocal ==
    /\ udpPc = "linklocal"
    /\ udpPc' = IF linkLocal(udpLocal) THEN "idle" ELSE "lock"
    /\ UNCHANGED <<nat, natLock, natChanges, udpFlows, udpDst, udpPort, udpLocal,
                   udpEp, udpProxy, udpDialed, natAtLookup>>
    /\ UNCHANGED <<procVars, hkVars>>

\* part_000:24
UdpLock ==
    /\ udpPc = "lock" /\ natLock = "free"
    /\ natLock' = "handler" /\ udpPc' = "lookup"
    /\ UNCHANGED <<nat, natChanges, udpFlows, udpDst, udpPort, udpLocal,
                   udpEp, udpProxy, udpDialed, natAtLookup>>
    /\ UNCHANGED <<procVars, hkVars>>

\* part_000:25-27
UdpLookup ==
    /\ udpPc = "lookup"
    /\ udpLocal' = NatLookup(nat, udpLocal)
    /\ natAtLookup' = nat
    /\ udpPc' = "unlock"
    /\ UNCHANGED <<nat, natLock, natChanges, udpFlows, udpDst, udpPort,
                   udpEp, udpProxy, udpDialed>>
    /\ UNCHANGED <<procVars, hkVars>>

\* part_000:28
UdpUnlock ==
    /\ udpPc = "unlock"
    /\ natLock' = "free" /\ udpPc' = "endpoint"
    /\ UNCHANGED <<nat, natChanges, udpFlows, udpDst, udpPort, udpLocal,
                   udpEp, udpProxy, udpDialed, natAtLookup>>
    /\ UNCHANGED <<procVars, hkVars>>

\* part_000:30-35: CreateEndpoint; the handler returns when it fails
UdpCreateEndpoint ==
    /\ udpPc = "endpoint"
    /\ \E ok \in BOOLEAN :
         /\ udpEp' = ok
         /\ udpPc' = IF ok THEN "proxy" ELSE "idle"
    /\ UNCHANGED <<nat, natLock, natChanges, udpFlows, udpDst, udpPort, udpLocal,
                   udpProxy, udpDialed, natAtLookup>>
    /\ UNCHANGED <<procVars, hkVars>>

\* part_000:37-40: the proxy is made with the dial closure and started
UdpStartProxy ==
    /\ udpPc = "proxy"
    /\ udpProxy' = TRUE /\ udpPc' = "running"
    /\ UNCHANGED <<nat, natLock, natChanges, udpFlows, udpDst, udpPort, udpLocal,
                   udpEp, udpDialed, natAtLookup>>
    /\ UNCHANGED <<procVars, hkVars>>

\* the dial closure looking the destination up when it dials
UdpDialLate ==
    /\ udpPc = "running" /\ udpDialed = <<>>
    /\ udpDialed' = <<NatLookup(nat, udpDst), udpPort>>
    /\ UNCHANGED <<nat, natLock, natChanges, udpFlows, udpPc, udpDst, udpPort, udpLocal,
                   udpEp, udpProxy, natAtLookup>>
    /\ UNCHANGED <<procVars, hkVars>>

\* part_000:38: the proxy dials with the closure: the captured localAddress
\* and the port of the flow
UdpDial ==
    /\ udpPc = "running" /\ udpDialed = <<>>
    /\ udpDialed' = <<udpLocal, udpPort>>
    /\ UNCHANGED <<nat, natLock, natChanges, udpFlows, udpPc, udpDst, udpPort, udpLocal,
                   udpEp, udpProxy, natAtLookup>>
    /\ UNCHANGED <<procVars, hkVars>>

\* the handler has returned (part_000:40); the stack may hand it the next flow
UdpNextFlow ==
    /\ udpPc = "running"
    /\ udpPc' = "idle"
    /\ UNCHANGED <<nat, natLock, natChanges, udpFlows, udpDst, udpPort, udpLocal,
                   udpEp, udpProxy, udpDialed, natAtLookup>>
    /\ UNCHANGED <<procVars, hkVars>>

\* the tables the forwarder may be given at start
InitialNats ==
    {NoNat, NatWith(NoNat, <<192, 168, 127, 254>>, <<127, 0, 0, 1>>)}

InitUDP ==
    /\ InitProcess /\ flags = FwdFlags /\ HostKeyIdle
    /\ nat \in InitialNats /\ natLock = "free" /\ natChanges = 0 /\ udpFlows = 0
    /\ udpPc = "idle" /\ udpDst = <<>> /\ udpPort = 0 /\ udpLocal = <<>>
    /\ udpEp = FALSE /\ udpProxy = FALSE /\ udpDialed = <<>> /\ natAtLookup = NoNat

NextUDP ==
    \/ NatWriterLock \/ NatWrite
    \/ UdpRequest \/ UdpLinkLocal \/ UdpLock \/ UdpLookup \/ UdpUnlock
    \/ UdpCreateEndpoint \/ UdpStartProxy \/ UdpDial \/ UdpNextFlow

SpecUDP == InitUDP /\ [][NextUDP]_vars

\* C13: the address a flow's proxy dials is what the NAT table, as it was at
\* the flow's lookup, maps the flow's destination to (the destination itself
\* when it was not a key), whatever was written to the table since; the port is
\* the flow's destination port; and the table does not change while the
\* handler holds the mutex.
C13_DialTarget ==
    /\ [](udpDialed # <<>> => udpDialed = <<NatLookup(natAtLookup, udpDst), udpPort>>)
    /\ [][natLock = "handler" => nat' = nat]_vars
    /\ [][(udpDialed # <<>> /\ udpFlows' = udpFlows) => udpDialed' = udpDialed]_vars

\* a flow was dialed at the address its lookup gave although the table no
\* longer maps its destination to that address
C13_Witness ==
    /\ udpDialed # <<>>
    /\ udpDst \in DOMAIN natAtLookup
    /\ NatLookup(nat, udpDst) # NatLookup(natAtLookup, udpDst)
    /\ udpDialed = <<natAtLookup[udpDst], udpPort>>

\* C14: no proxy dials a link-local address, and a flow whose destination is
\* link-local once the NAT rewrite is applied gets no endpoint, no proxy and no dial.
C14_NeverLinkLocal ==
    /\ udpDialed # <<>> => ~linkLocal(udpDialed[1])
    /\ (udpPc \in {"endpoint", "proxy", "running"} /\ linkLocal(udpLocal)) =>
           (~udpEp /\ ~udpProxy /\ udpDialed = <<>>)

\* C15: in each direction the bytes written to the destination are a prefix of
\* the bytes the source's peer produced, in their order and each once
\* (the peer's bytes are numbered 1, 2, ...); the destination of side s's peer
\* is written only by the one pump that reads side s, while it is in its write.
C15_PrefixInOrder ==
    /\ [](\A s \in Sides :
            /\ Len(got[Other(s)]) <= sent[s]
            /\ \A i \in 1..Len(got[Other(s)]) : got[Other(s)][i] = i)
    /\ [][\A s \in Sides :
            got'[Other(s)] # got[Other(s)] =>
                (pumpPc[s] = "write" /\ pumpPc'[s] = "read"
                 /\ got'[Other(s)] = got[Other(s)] \o pumpBuf[s])]_vars

\* both directions have delivered bytes, one of them in two separate writes
C15_Witness ==
    /\ got["ssh"] = <<1, 2>> /\ got["local"] = <<1>>
    /\ pumpBuf["local"] = <<>> /\ sent["local"] = 2

\* how many of --forward-sock, --forward-dest, --forward-user and
\* --forward-identity were given
ForwardFlagsGiven ==
    Cardinality({x \in {"forwardSocket", "forwardDest", "forwardUser", "forwardIdentify"} :
                    flags[x] # ""})

\* start-up has ended in exitWithError before any task was started
StartupRejected == mainPc = "exited" /\ exitStatus = 1 /\ runPc = "none"

\* start-up has passed the checks of the flags: the tasks of main were started
StartupAccepted == runPc # "none"

\* the flags this claim is not about pass their checks
OtherThanForwardValid ==
    /\ flags.qemuSocket \in {"", "ok"}
    /\ ~(flags.vpnkitSocket # "" /\ flags.qemuSocket # "")
    /\ flags.sshPort >= 1024 /\ flags.sshPort <= 65535
    /\ flags.forwardIdentify # "missing"

\* C16: once the flags were checked, start-up was rejected with an error exit
\* when one, two or three of the four --forward-* flags were given, and was
\* accepted when none or all four were given (the other flags being valid); the
\* forwarder task exists only when all four were given.
C16_ForwardFlagsTogether ==
    /\ mainPc \notin {"init", "validate"} =>
          /\ ForwardFlagsGiven \in {1, 2, 3} => StartupRejected
          /\ (ForwardFlagsGiven \in {0, 4} /\ OtherThanForwardValid) => StartupAccepted
    /\ fwdPc # "none" => ForwardFlagsGiven = 4

\* three of the four flags were given, the rest of the command line is valid,
\* and the process has exited with an error
C16_Witness ==
    /\ ForwardFlagsGiven = 3 /\ OtherThanForwardValid /\ StartupRejected

\* the flags other than --ssh-port pass their checks
OtherThanPortValid ==
    /\ flags.qemuSocket \in {"", "ok"}
    /\ ~(flags.vpnkitSocket # "" /\ flags.qemuSocket # "")
    /\ flags.forwardIdentify # "missing"
    /\ ForwardFlagsGiven \in {0, 4}

\* C17: once the flags were checked, start-up was rejected with an error exit
\* if --ssh-port is below 1024 or above 65535 (1023 and 65536 among them) and,
\* the other flags being valid, only then (1024 and 65535 are accepted); an
\* accepted port p gives the one forward ":p" to 192.168.127.2:22.
C17_SshPortRange ==
    mainPc \notin {"init", "validate"} =>
        /\ (flags.sshPort < 1024 \/ flags.sshPort > 65535) => StartupRejected
        /\ flags.sshPort \in {1023, 65536} => StartupRejected
        /\ (flags.sshPort >= 1024 /\ flags.sshPort <= 65535 /\ OtherThanPortValid) =>
              /\ StartupAccepted
              /\ forwards = {<<<<":", flags.sshPort>>, "192.168.127.2:22">>}
        /\ (flags.sshPort \in {1024, 65535} /\ OtherThanPortValid) => ~StartupRejected

\* the lowest accepted port was given and the forward is in the configuration
C17_Witness ==
    /\ flags.sshPort = 1024 /\ StartupAccepted
    /\ forwards = {<<<<":", 1024>>, "192.168.127.2:22">>}

\* C18: a 200 ms wait of connectForward that ends with the context cancelled
\* (the wait before the next channel open or the wait between two Reconnect
\* attempts) is the end of connectForward: it returns its error, the accepted
\* connection is closed, and no channel open or Reconnect is attempted.
C18_CutSleepReturns ==
    [][(fwdPc \in {"cf_sleep", "cf_rsleep"} /\ ctxDone /\ fwdPc' # fwdPc) =>
          (fwdPc' = "loop" /\ con' = "closed"
           /\ cfDials' = cfDials /\ cfReconn' = cfReconn)]_vars

\* C19: bastion.Client is replaced only by a step of the forwarder's one task
\* (the handshake of CreateBastion or of a Reconnect); while a Reconnect is in
\* its handshake no other Reconnect starts; and a local connection is accepted
\* (connectForward starts, with retries = 1) only from the Accept of the loop,
\* when the connection accepted before is no longer being handled (it was
\* piped or closed).
C19_BastionSerialized ==
    /\ [][(client' = "open" /\ client # "open") =>
             (fwdPc \in {"cb_handshake", "cf_handshake"} /\ fwdPc' # fwdPc)]_vars
    /\ [][fwdPc = "cf_handshake" => cfReconn' = cfReconn]_vars
    /\ [][(fwdPc' = "cf_dial" /\ retries' = 1 /\ fwdPc # "cf_dial") =>
             (fwdPc = "accept" /\ con # "open" /\ fwdPending' = fwdPending - 1)]_vars
    /\ [](InConnectForward => con = "open")

\* a Reconnect has replaced the client while the second connection was being
\* handled and the pumps of the first were running
C19_Witness ==
    /\ fwdPc = "cf_sleep" /\ cfLast = "reconnect ok" /\ client = "open"
    /\ tunnels = 1 /\ pumpPc["local"] = "read" /\ pumpPc["ssh"] = "read"

\* C20: when initialConnection returns, it returns an established connection
\* and no error, or an error; and CreateBastion is under way only with the
\* connection initialConnection established.
C20_InitialConnectionResult ==
    /\ fwdPc = "ic_return" => ((icConn = "open" /\ icErr = "nil") \/ icErr # "nil")
    /\ fwdPc \in {"cb_connect", "cb_handshake"} => icConn = "open"

\* C21: once CreateSSHForward has returned an error (the forwarder task is
\* about to return it, or has returned it), no listener is open on S and no
\* connection to the guest is open.
C21_NothingLeftOpenOnError ==
    (fwdPc = "failed" \/ groupErr = "CreateSSHForward") =>
        (fwdLn # "open" /\ guestConn # "open")

====
